---- MODULE Spec2Model ----
(***************************************************************************)
(* A model of nanobot's task orchestration core: the tool registry with    *)
(* its JSON-schema parameter validation (agent/tools/base.py,              *)
(* agent/tools/registry.py), the subagent manager (agent/subagent.py,      *)
(* agent/tools/spawn.py), the message bus with the outbound dispatcher     *)
(* (channels/manager.py), the heartbeat service (heartbeat/service.py),    *)
(* the cron service (cron/types.py), the allow-list gate of a channel      *)
(* (channels/base.py), the completion backend                              *)
(* (providers/litellm_provider.py), a session's message log                *)
(* (session/manager.py) and the transcript of a subagent run; around      *)
(* them the spawn tool's context, the Feishu channel's de-duplication      *)
(* (channels/feishu.py), the gateway's cron callback (cli/commands.py),    *)
(* the session manager's files (session/manager.py, utils/helpers.py),     *)
(* the WhatsApp channel's connection (channels/whatsapp.py) and the        *)
(* session keys (bus/events.py, utils/helpers.py).                         *)
(*                                                                         *)
(* Texts are sequences of tokens (each token a string), so that building   *)
(* a text is concatenation and "starts with" is a test on the first        *)
(* token.  The program's Chinese message literals are written in ASCII.    *)
(***************************************************************************)
EXTENDS Integers, Sequences, FiniteSets, TLC

(***************************************************************************)
(* Python values, as far as the validator tells them apart.                *)
(* A float carries twice its value, so that 2.5 is PyFloat(5).             *)
(***************************************************************************)
PyStr(s) == [t |-> "str", v |-> s]
PyInt(n) == [t |-> "int", v |-> n]
PyFloat(h) == [t |-> "float", v |-> h]
PyBool(b) == [t |-> "bool", v |-> b]
PyList(s) == [t |-> "list", v |-> s]
PyDict(f) == [t |-> "dict", v |-> f]

\* The empty mapping {}.
EmptyMap == [k \in {} |-> PyStr("")]

\* Twice the numeric value of an int, a float or a bool (True is 1, False is 0).
NumX2(val) ==
    CASE val.t = "int" -> 2 * val.v
      [] val.t = "float" -> val.v
      [] val.t = "bool" -> IF val.v THEN 2 ELSE 0

IsNumeric(val) == val.t \in {"int", "float", "bool"}

\* Python's ==, as used by "val not in schema['enum']".
PyEq(a, b) ==
    IF IsNumeric(a) /\ IsNumeric(b) THEN NumX2(a) = NumX2(b)
    ELSE a.t = b.t /\ a.v = b.v

\* isinstance(val, classes): bool is a subclass of int, so isinstance(True, int)
\* is true.
IsInstance(val, classes) ==
    \/ val.t \in classes
    \/ val.t = "bool" /\ "int" \in classes

\* Tool._TYPE_MAP
TYPE_MAP ==
    [string |-> {"str"}, integer |-> {"int"}, number |-> {"int", "float"},
     boolean |-> {"bool"}, array |-> {"list"}, object |-> {"dict"}]

Has(schema, key) == key \in DOMAIN schema

\* dict.items() is walked in this order of keys.
KeyOrder == <<"query", "count", "mode", "meta", "tag", "flags", "task", "label", "path">>

KeysOf(f) == SelectSeq(KeyOrder, LAMBDA k : k \in DOMAIN f)

\* path + '.' + k if path else k
ChildPath(path, k) == IF path = "" THEN k ELSE path \o "." \o k

\* f"{path}[{i}]" if path else f"[{i}]", with Python's 0-based index
ItemPath(path, i) == path \o "[" \o ToString(i - 1) \o "]"

RECURSIVE _validate(_, _, _)
RECURSIVE PropErrors(_, _, _, _)
RECURSIVE ItemErrors(_, _, _, _)

\* for k, v in val.items(): if k in props: errors.extend(_validate(v, props[k], ...))
PropErrors(keys, val, props, path) ==
    IF keys = <<>> THEN <<>>
    ELSE LET k == Head(keys)
         IN (IF k \in DOMAIN props
             THEN _validate(val[k], props[k], ChildPath(path, k))
             ELSE <<>>)
            \o PropErrors(Tail(keys), val, props, path)

\* for i, item in enumerate(val): errors.extend(_validate(item, schema["items"], ...))
ItemErrors(i, items, schema, path) ==
    IF i > Len(items) THEN <<>>
    ELSE _validate(items[i], schema, ItemPath(path, i))
         \o ItemErrors(i + 1, items, schema, path)

\* for k in schema.get("required", []): if k not in val: errors.append(...)
RequiredErrors(required, val, path) ==
    LET missing == SelectSeq(required, LAMBDA k : k \notin DOMAIN val)
    IN [i \in 1..Len(missing) |-> "missing required " \o ChildPath(path, missing[i])]

\* Tool._validate
_validate(val, schema, path) ==
    LET t == IF Has(schema, "type") THEN schema.type ELSE "none"
        label == IF path = "" THEN "parameter" ELSE path
    IN IF t \in DOMAIN TYPE_MAP /\ ~IsInstance(val, TYPE_MAP[t])
       THEN <<label \o " should be " \o t>>
       ELSE
         (IF Has(schema, "enum") /\ ~(\E i \in 1..Len(schema.enum) : PyEq(val, schema.enum[i]))
          THEN <<label \o " must be one of enum">> ELSE <<>>)
         \o (IF t \in {"integer", "number"} /\ Has(schema, "minimum")
                /\ NumX2(val) < 2 * schema.minimum
             THEN <<label \o " must be >= " \o ToString(schema.minimum)>> ELSE <<>>)
         \o (IF t \in {"integer", "number"} /\ Has(schema, "maximum")
                /\ NumX2(val) > 2 * schema.maximum
             THEN <<label \o " must be <= " \o ToString(schema.maximum)>> ELSE <<>>)
         \o (IF t = "string" /\ Has(schema, "minLength") /\ Len(val.v) < schema.minLength
             THEN <<label \o " at least " \o ToString(schema.minLength) \o " chars">> ELSE <<>>)
         \o (IF t = "string" /\ Has(schema, "maxLength") /\ Len(val.v) > schema.maxLength
             THEN <<label \o " at most " \o ToString(schema.maxLength) \o " chars">> ELSE <<>>)
         \o (IF t = "object"
             THEN RequiredErrors(IF Has(schema, "required") THEN schema.required ELSE <<>>,
                                 val.v, path)
                  \o PropErrors(KeysOf(val.v), val.v,
                                IF Has(schema, "properties") THEN schema.properties ELSE EmptyMap,
                                path)
             ELSE <<>>)
         \o (IF t = "array" /\ Has(schema, "items")
             THEN ItemErrors(1, val.v, schema.items, path)
             ELSE <<>>)

\* {**schema, "type": "object"}
WithObjectType(schema) ==
    [k \in DOMAIN schema \cup {"type"} |-> IF k = "type" THEN "object" ELSE schema[k]]

\* Tool.validate_params: the list of errors, or a raised ValueError when the
\* schema's type is not object.
validate_params(schema, params) ==
    IF Has(schema, "type") /\ schema.type # "object"
    THEN [raised |-> TRUE, errors |-> <<>>, message |-> "schema must be of type object"]
    ELSE [raised |-> FALSE, errors |-> _validate(params, WithObjectType(schema), ""),
          message |-> ""]


(***************************************************************************)
(* Tools.  SpawnTool is the one concrete tool of the sources; SampleTool   *)
(* is a tool whose schema uses every constraint the validator knows.       *)
(***************************************************************************)
\* SpawnTool.parameters
SpawnSchema ==
    [type |-> "object",
     properties |-> [task |-> [type |-> "string"], label |-> [type |-> "string"]],
     required |-> <<"task">>]

\* Tool.parameters of a tool with nested object and array properties
SampleSchema ==
    [type |-> "object",
     properties |->
        [query |-> [type |-> "string", minLength |-> 2, maxLength |-> 3],
         count |-> [type |-> "integer", minimum |-> 1, maximum |-> 10],
         mode |-> [type |-> "string", enum |-> <<PyStr("fast"), PyStr("full")>>],
         meta |-> [type |-> "object",
                   properties |-> [tag |-> [type |-> "string"],
                                   flags |-> [type |-> "array",
                                              items |-> [type |-> "string"]]],
                   required |-> <<"tag">>]],
     required |-> <<"query", "count">>]

\* ReplacementTool is another tool whose name is "sample" too.
ToolObjects == {"SpawnTool", "SampleTool", "ReplacementTool"}

\* The names of the tools of agent/tools/filesystem.py, shell.py and web.py.
BuiltinToolNames ==
    [ReadFileTool |-> "read_file", WriteFileTool |-> "write_file",
     ListDirTool |-> "list_dir", ExecTool |-> "exec",
     WebSearchTool |-> "web_search", WebFetchTool |-> "web_fetch"]

\* The name of the tool that sends a message to the user.
MessageToolName == "message"

\* The parameters of a tool of agent/tools/filesystem.py.
BuiltinSchema ==
    [type |-> "object", properties |-> [path |-> [type |-> "string"]],
     required |-> <<"path">>]

\* SpawnTool.name
SpawnToolName == "spawn"

\* Tool.name
ToolName(tool) ==
    CASE tool = "SpawnTool" -> SpawnToolName
      [] tool = "SampleTool" -> "sample"
      [] tool = "ReplacementTool" -> "sample"
      [] OTHER -> BuiltinToolNames[tool]

\* Tool.parameters
ToolSchema(tool) ==
    CASE tool = "SpawnTool" -> SpawnSchema
      [] tool = "SampleTool" -> SampleSchema
      [] OTHER -> BuiltinSchema

(***************************************************************************)
(* The argument mappings the model calls the registry with: every choice   *)
(* of a value, or of no value, for each key.                               *)
(***************************************************************************)
Absent == [t |-> "absent", v |-> 0]

Candidates ==
    [query |-> {Absent, PyStr("a"), PyStr("ab"), PyStr("abcd"), PyInt(5)},
     count |-> {Absent, PyInt(0), PyInt(5), PyInt(11), PyBool(TRUE), PyFloat(5), PyStr("5")},
     mode |-> {Absent, PyStr("fast"), PyStr("slow")},
     meta |-> {Absent,
               PyDict([tag |-> PyStr("t")]),
               PyDict(EmptyMap),
               PyDict([tag |-> PyInt(1)]),
               PyDict([tag |-> PyStr("t"), flags |-> PyList(<<PyStr("f")>>)]),
               PyDict([tag |-> PyStr("t"), flags |-> PyList(<<PyStr("f"), PyInt(1)>>)]),
               PyStr("m")},
     task |-> {Absent, PyStr("do"), PyInt(5)},
     label |-> {Absent, PyStr("l"), PyBool(TRUE)}]

\* The mapping that holds the keys of choice that have a value.
MappingOf(choice) ==
    LET keys == {k \in DOMAIN choice : choice[k] # Absent}
    IN PyDict([k \in keys |-> choice[k]])

\* Arguments for SampleTool that satisfy its schema.
BaseChoice == [query |-> PyStr("ab"), count |-> PyInt(5), mode |-> Absent, meta |-> Absent]

\* BaseChoice with the value of one key changed, or of both query and count.
SampleChoices ==
    UNION {{[BaseChoice EXCEPT ![k] = v] : v \in Candidates[k]} :
              k \in {"query", "count", "mode", "meta"}}
    \cup {[BaseChoice EXCEPT !.query = q, !.count = c] :
            q \in {Absent, PyStr("a")}, c \in {Absent, PyInt(11), PyBool(TRUE)}}

SampleParams == {MappingOf(c) : c \in SampleChoices}

SpawnParams ==
    {MappingOf(c) : c \in [task : Candidates.task, label : Candidates.label]}

\* Arguments that are no mapping at all (a tool call whose JSON arguments are a list).
NonMappingParams == {PyList(<<>>)}

\* Arguments for a tool that takes a path.
PathParams == {PyDict([path |-> PyStr("notes.md")])}

ParamValues == SampleParams \cup SpawnParams \cup NonMappingParams \cup PathParams

\* What a tool's own execute does when called: it returns a text or raises an
\* Exception whose str() is text.
ToolOutcomes ==
    {[kind |-> "return", text |-> <<"done">>],
     [kind |-> "return", text |-> <<"Error: ", "no such file">>],
     [kind |-> "raise", text |-> <<"boom">>]}


(***************************************************************************)
(* State.                                                                  *)
(*   _tools          ToolRegistry._tools: name -> tool                     *)
(*   last            the last call of ToolRegistry.execute and what it did *)
(*   nspawned        how many times SubagentManager.spawn was called       *)
(*   _running_tasks  SubagentManager._running_tasks: task id -> task (the  *)
(*                   number of the spawn that created it)                  *)
(*   sub             the coroutine _run_subagent of each spawn             *)
(*   inbound         the bus's inbound queue                               *)
(*   spawn_calls     the calls of spawn so far, in order: the arguments    *)
(*                   and the text returned                                 *)
(*   registered      the call of ToolRegistry.register, when that is the   *)
(*                   last call made on the registry: the tool, the tool    *)
(*                   its name mapped to before, and len(registry) before   *)
(*   outbound        the bus's outbound queue                              *)
(*   npublished      how many messages were published on it               *)
(*   _dispatch_task  ChannelManager._dispatch_task: the coroutine          *)
(*                   _dispatch_outbound, where it stands and the message   *)
(*                   it holds                                              *)
(*   dispatched      the messages _dispatch_outbound took from the queue,  *)
(*                   in order, with what it did with each                  *)
(*   consumed        the messages taken from the inbound queue, in order   *)
(*   enabled, on_heartbeat, _running, _task                                *)
(*                   the fields of HeartbeatService                        *)
(*   loops           the coroutines _run_loop, one for each call of start  *)
(*   last_tick       the last run of HeartbeatService._tick                *)
(*   content, classified                                                   *)
(*                   an argument of _is_heartbeat_empty and its result     *)
(*   jobs            the cron store: job id -> CronJob                     *)
(*   now_ms          the clock, in periods of the model's time unit        *)
(*   last_op         the last operation of the cron service at this        *)
(*                   instant of the clock                                  *)
(*   added           what is remembered of every cron job ever added       *)
(*   _timer_task     the scheduler's timer task: armed, or ended by an     *)
(*                   Exception                                             *)
(*   allow_from      config.allow_from of a channel                        *)
(*   handled         the last call of BaseChannel._handle_message          *)
(*   provider        the fields of a LiteLLMProvider                       *)
(*   chat_call       the last call of LiteLLMProvider.chat                 *)
(*   session         a Session: its messages, and the number of            *)
(*                   add_message calls made on it                          *)
(*   session_op      the last operation on the session                     *)
(*   run             the coroutine _run_subagent whose transcript is       *)
(*                   followed                                              *)
(*   messages        its local list messages, the transcript               *)
(*   chat_log        what provider.chat answered to it so far, in order    *)
(*   _origin_channel, _origin_chat_id                                      *)
(*                   the context of the main agent's SpawnTool             *)
(*   last_completion for each spawn, what the completion call under its    *)
(*                   last chat did                                         *)
(*   _processed_message_ids                                                *)
(*                   FeishuChannel's cache of message ids, oldest first    *)
(*   on_message      the _on_message coroutines scheduled so far: the      *)
(*                   event and where each stands                           *)
(*   evictions       how often each message id was evicted from the cache  *)
(*   on_cron_job     the last call of the gateway's cron callback          *)
(*   nfired          the number of calls of the cron callback              *)
(*   keys            the session keys that are followed                    *)
(*   _cache          SessionManager._cache: key -> log of the session      *)
(*   files           the sessions directory: file name -> log              *)
(*   store_op        the last operation of the session manager             *)
(*   channel_running, _connected, _ws                                      *)
(*                   the fields of WhatsAppChannel                         *)
(*   start_call, stop_call                                                 *)
(*                   where start() and the last stop() stand               *)
(*   bridge          the websocket start() made last: open or closed, and  *)
(*                   how it closed                                         *)
(*   late_forwards   the messages forwarded after stop() returned          *)
(*   key_of          the channel and the chat id of a message              *)
(*   parse_call      the last call of parse_session_key                    *)
(***************************************************************************)
VARIABLES _tools, last, registered, nspawned, _running_tasks, sub, inbound, spawn_calls,
          outbound, npublished, _dispatch_task, dispatched, consumed,
          enabled, on_heartbeat, _running, _task, loops, last_tick,
          content, classified,
          jobs, now_ms, last_op, added, _timer_task,
          allow_from, handled, provider, chat_call, session, session_op,
          run, messages, chat_log
VARIABLES _origin_channel, _origin_chat_id, last_completion, _processed_message_ids,
          on_message, evictions, on_cron_job, nfired, keys, _cache, files, store_op,
          channel_running, _connected, _ws, start_call, stop_call, bridge,
          late_forwards, key_of, parse_call

registryVars == <<_tools, last, registered>>
subagentVars == <<nspawned, _running_tasks, sub, inbound, spawn_calls>>
busVars == <<outbound, npublished, _dispatch_task, dispatched, consumed>>
heartbeatVars == <<enabled, on_heartbeat, _running, _task, loops, last_tick>>
classifyVars == <<content, classified>>
cronVars == <<jobs, now_ms, last_op, added, _timer_task>>
channelVars == <<allow_from, handled>>
providerVars == <<provider, chat_call>>
sessionVars == <<session, session_op>>
transcriptVars == <<run, messages, chat_log>>
spawnToolVars == <<_origin_channel, _origin_chat_id>>
backendVars == <<last_completion>>
feishuVars == <<_processed_message_ids, on_message, evictions>>
gatewayVars == <<on_cron_job, nfired>>
storeVars == <<keys, _cache, files, store_op>>
whatsAppVars ==
    <<channel_running, _connected, _ws, start_call, stop_call, bridge, late_forwards>>
parseKeyVars == <<key_of, parse_call>>

\* The state of the components at the edge of the gateway.
edgeVars ==
    <<spawnToolVars, backendVars, feishuVars, gatewayVars, storeVars, whatsAppVars,
      parseKeyVars>>

\* The state of the components modelled before them.
coreVars ==
    <<registryVars, subagentVars, busVars, heartbeatVars, classifyVars, cronVars,
      channelVars, providerVars, sessionVars, transcriptVars>>

\* For each of them, the state of the others.
otherSpawnToolVars ==
    <<backendVars, feishuVars, gatewayVars, storeVars, whatsAppVars, parseKeyVars>>
notSpawnToolVars == <<coreVars, otherSpawnToolVars>>
otherBackendVars ==
    <<spawnToolVars, feishuVars, gatewayVars, storeVars, whatsAppVars, parseKeyVars>>
otherFeishuVars ==
    <<spawnToolVars, backendVars, gatewayVars, storeVars, whatsAppVars, parseKeyVars>>
otherGatewayVars ==
    <<spawnToolVars, backendVars, feishuVars, storeVars, whatsAppVars, parseKeyVars>>
otherStoreVars ==
    <<spawnToolVars, backendVars, feishuVars, gatewayVars, whatsAppVars,
      parseKeyVars>>
otherWhatsAppVars ==
    <<spawnToolVars, backendVars, feishuVars, gatewayVars, storeVars, parseKeyVars>>
otherParseKeyVars ==
    <<spawnToolVars, backendVars, feishuVars, gatewayVars, storeVars, whatsAppVars>>

\* The state of a channel's gate, the provider, a session and a transcript.
adapterVars == <<channelVars, providerVars, sessionVars, transcriptVars, edgeVars>>

\* The state of the services around the registry and the subagent manager.
serviceVars == <<busVars, heartbeatVars, classifyVars, cronVars, adapterVars>>

vars == <<registryVars, subagentVars, serviceVars>>

\* The registry with no entry.
NoTools == [n \in {} |-> "SpawnTool"]

\* No call of the tool's own execute.
NoOutcome == [kind |-> "", text |-> <<>>]

NoCall == [name |-> "", params |-> PyList(<<>>), tool |-> "", invocations |-> 0,
           outcome |-> NoOutcome, raised |-> FALSE, result |-> <<>>]

\* No call of ToolRegistry.register.
NoRegistration == [tool |-> "", prior |-> "", size |-> 0]

\* "；".join(errors)
RECURSIVE Join(_)
Join(errors) ==
    IF errors = <<>> THEN <<>>
    ELSE IF Len(errors) = 1 THEN <<errors[1]>>
    ELSE <<errors[1], "; ">> \o Join(Tail(errors))

\* A registry that puts a marker in front of what the tool returned.
InvokeTool_Marked(tool, name, outcome) ==
    [tool |-> tool, invocations |-> 1, raised |-> FALSE,
     result |-> IF outcome.kind = "raise"
                THEN <<"executing ", name, " failed: ">> \o outcome.text
                ELSE <<"Result: ">> \o outcome.text]

\* A registry without the except clause: the tool's exception leaves execute.
InvokeTool_Propagates(tool, name, outcome) ==
    [tool |-> tool, invocations |-> 1, raised |-> outcome.kind = "raise",
     result |-> IF outcome.kind = "raise" THEN <<>> ELSE outcome.text]

\* return await tool.execute(**params), and the except clause around it.
\* raised says whether an exception leaves ToolRegistry.execute.
InvokeTool(tool, name, outcome) ==
    [tool |-> tool, invocations |-> 1, raised |-> FALSE,
     result |-> IF outcome.kind = "raise"
                THEN <<"executing ", name, " failed: ">> \o outcome.text
                ELSE outcome.text]

\* A registry whose error text for a missing tool does not say which tool.
NotFound_Unnamed(name) ==
    [tool |-> "", invocations |-> 0, raised |-> FALSE,
     result |-> <<"Error: ", "tool not found">>]

\* if not tool: return f"... '{name}'"
NotFound(name) ==
    [tool |-> "", invocations |-> 0, raised |-> FALSE,
     result |-> <<"Error: ", "tool '", name, "' not found">>]

\* ToolRegistry.execute on the registry reg, when the tool's own execute, if it
\* is called, ends as outcome says.  invocations counts the calls of the tool's
\* own execute.
RegistryExecute(reg, name, params, outcome) ==
    IF name \notin DOMAIN reg
    THEN NotFound(name)
    ELSE LET tool == reg[name]
             checked == validate_params(ToolSchema(tool), params)
         IN IF checked.raised
            THEN [tool |-> tool, invocations |-> 0, raised |-> FALSE,
                  result |-> <<"executing ", name, " failed: ", checked.message>>]
            ELSE IF checked.errors # <<>>
            THEN [tool |-> tool, invocations |-> 0, raised |-> FALSE,
                  result |-> <<"Error: ", "tool '", name, "' has invalid parameters: ">>
                             \o Join(checked.errors)]
            ELSE InvokeTool(tool, name, outcome)

\* A registry that keeps the tool a name already maps to.
SetItem_KeepFirst(reg, name, tool) ==
    [n \in DOMAIN reg \cup {name} |-> IF n \in DOMAIN reg THEN reg[n] ELSE tool]

\* self._tools[tool.name] = tool
SetItem(reg, name, tool) ==
    [n \in DOMAIN reg \cup {name} |-> IF n = name THEN tool ELSE reg[n]]

\* ToolRegistry.get, with "" for None
Get(reg, name) == IF name \in DOMAIN reg THEN reg[name] ELSE ""

\* ToolRegistry.__len__
RegistryLen(reg) == Cardinality(DOMAIN reg)

\* ToolRegistry.register
Register(tool) ==
    /\ _tools' = SetItem(_tools, ToolName(tool), tool)
    /\ registered' = [tool |-> tool, prior |-> Get(_tools, ToolName(tool)),
                      size |-> RegistryLen(_tools)]
    /\ UNCHANGED <<last, subagentVars, serviceVars>>

\* ToolRegistry.unregister
Unregister(name) ==
    /\ _tools' = [n \in DOMAIN _tools \ {name} |-> _tools[n]]
    /\ registered' = NoRegistration
    /\ UNCHANGED <<last, subagentVars, serviceVars>>

\* ToolRegistry.execute
Execute(name, params, outcome) ==
    /\ LET r == RegistryExecute(_tools, name, params, outcome)
       IN last' = [name |-> name, params |-> params, tool |-> r.tool,
                   invocations |-> r.invocations,
                   outcome |-> IF r.invocations = 0 THEN NoOutcome ELSE outcome,
                   raised |-> r.raised, result |-> r.result]
    /\ registered' = NoRegistration
    /\ UNCHANGED <<_tools, subagentVars, serviceVars>>

ToolNames == {ToolName(t) : t \in ToolObjects}


(***************************************************************************)
(* The subagent manager.                                                   *)
(***************************************************************************)
\* The most spawns of one run of the model.
MaxSpawns == 2

\* max_iterations
max_iterations == 15

Spawns == 1..MaxSpawns

\* str(uuid.uuid4())[:8]: the first eight hexadecimal digits of a random uuid.
\* Nothing in spawn compares a new id with the ids in use.
TaskIds == {"1a2b3c4d", "9f8e7d6c"}

\* label: None when spawn is called without one.
None == "<None>"

\* The arguments spawn is called with: a task of at most 30 characters, a
\* label or None, and who is to receive the result.
SpawnInputs ==
    {[task |-> "tidy the notes", label |-> None,
      origin |-> [channel |-> "cli", chat_id |-> "direct"]],
     [task |-> "fetch the news", label |-> "news",
      origin |-> [channel |-> "telegram", chat_id |-> "42"]]}

\* display_label = label or task[:30] + ("..." if len(task) > 30 else ""), for a
\* task of at most 30 characters
DisplayLabel(task, label) == IF label \notin {None, ""} THEN label ELSE task

\* A subagent that is given the spawn tool as well.
SubagentToolClasses_WithSpawn ==
    <<"ReadFileTool", "WriteFileTool", "ListDirTool", "ExecTool", "WebSearchTool",
      "WebFetchTool", "SpawnTool">>

\* The tools _run_subagent registers, in order.
SubagentToolClasses ==
    <<"ReadFileTool", "WriteFileTool", "ListDirTool", "ExecTool", "WebSearchTool",
      "WebFetchTool">>


\* tools = ToolRegistry() followed by the tools.register(...) calls
RECURSIVE RegisterAll(_, _)
RegisterAll(reg, classes) ==
    IF classes = <<>> THEN reg
    ELSE LET tool == Head(classes)
             next == [n \in DOMAIN reg \cup {ToolName(tool)} |->
                        IF n = ToolName(tool) THEN tool ELSE reg[n]]
         IN RegisterAll(next, Tail(classes))

\* What the completion backend may answer to one chat call.
ToolCallRead == [id |-> "call_1", name |-> "read_file",
                 arguments |-> PyDict([path |-> PyStr("notes.md")])]
ToolCallSpawn == [id |-> "call_2", name |-> "spawn",
                  arguments |-> PyDict([task |-> PyStr("again")])]

NoText == <<None>>

Responses ==
    {[kind |-> "response", content |-> <<"all tidy">>, tool_calls |-> <<>>],
     [kind |-> "response", content |-> NoText, tool_calls |-> <<>>],
     [kind |-> "response", content |-> NoText, tool_calls |-> <<ToolCallRead>>],
     [kind |-> "response", content |-> <<"on it">>,
      tool_calls |-> <<ToolCallSpawn, ToolCallRead>>],
     [kind |-> "raise", content |-> <<"connection reset">>, tool_calls |-> <<>>]}

\* LLMResponse.has_tool_calls
has_tool_calls(response) == Len(response.tool_calls) > 0

\* "任务已完成，但未生成最终响应。"
CannedResult == <<"Task completed, but no final response was generated.">>

\* A spawn that has not happened.
NoOrigin == [channel |-> "", chat_id |-> ""]
NoSub == [pc |-> "none", task_id |-> "", task |-> "", label |-> "", origin |-> NoOrigin,
          tools |-> NoTools, iteration |-> 0, chat_calls |-> 0, pending |-> <<>>,
          status |-> "",
          result |-> <<>>, raised |-> NoText, ceiling |-> FALSE]

\* An announcement sent to the default origin instead of the spawn's own.
Announcement_DefaultOrigin(i, rec, result, status) ==
    [channel |-> "system", sender_id |-> "subagent",
     chat_id |-> <<"cli", ":", "direct">>,
     content |-> <<"[Subagent '", rec.label, "' ",
                   IF status = "ok" THEN "completed successfully" ELSE "failed", "]",
                   "Task: ", rec.task, "Result: ">> \o result
                 \o <<"Summarize this naturally for the user.">>,
     spawn |-> i]

\* An announcement sent to the conversation the tool serves when the
\* subagent ends.
Announcement_CurrentContext(i, rec, result, status) ==
    [channel |-> "system", sender_id |-> "subagent",
     chat_id |-> <<_origin_channel, ":", _origin_chat_id>>,
     content |-> <<"[Subagent '", rec.label, "' ",
                   IF status = "ok" THEN "completed successfully" ELSE "failed", "]",
                   "Task: ", rec.task, "Result: ">> \o result
                 \o <<"Summarize this naturally for the user.">>,
     spawn |-> i]

\* SubagentManager._announce_result: the message it publishes.  spawn is not a
\* field of InboundMessage: it records which spawn's coroutine published.
Announcement(i, rec, result, status) ==
    [channel |-> "system", sender_id |-> "subagent",
     chat_id |-> <<rec.origin.channel, ":", rec.origin.chat_id>>,
     content |-> <<"[Subagent '", rec.label, "' ",
                   IF status = "ok" THEN "completed successfully" ELSE "failed", "]",
                   "Task: ", rec.task, "Result: ">> \o result
                 \o <<"Summarize this naturally for the user.">>,
     spawn |-> i]

\* The coroutine's state once _announce_result has returned and _run_subagent
\* with it: the task is done and its locals are gone.
Finished(rec, result, status, raised, ceiling) ==
    [rec EXCEPT !.pc = "finished", !.iteration = 0, !.chat_calls = 0, !.pending = <<>>,
                !.status = status, !.result = result, !.raised = raised,
                !.ceiling = ceiling]

\* except Exception as e: error_msg = f"错误：{str(e)}"
ErrorResult(message) == <<"Error: ">> \o message

\* A loop that runs once more than the ceiling.
LoopContinues_OffByOne(iteration) == iteration =< max_iterations

\* while iteration < max_iterations
LoopContinues(iteration) == iteration < max_iterations


\* A loop whose ceiling is reported as a failure.
AfterLoop_Failed(rec) ==
    Finished(rec, ErrorResult(<<"iteration limit reached">>), "error", NoText, TRUE)

\* The code after the while loop: no final result was set, so the canned text
\* is the result, announced with status "ok".
AfterLoop(rec) == Finished(rec, CannedResult, "ok", NoText, TRUE)

\* The head of the while loop: either the loop is over, or iteration += 1 and
\* the coroutine waits for self.provider.chat(...).
NextIteration(rec) ==
    IF LoopContinues(rec.iteration)
    THEN [rec EXCEPT !.iteration = @ + 1, !.chat_calls = @ + 1, !.pc = "await_chat",
                     !.pending = <<>>]
    ELSE AfterLoop(rec)

\* The first run of the coroutine: it builds its tools and enters the loop.
Start(rec) ==
    NextIteration([rec EXCEPT !.tools = RegisterAll(NoTools, SubagentToolClasses),
                              !.iteration = 0])

\* A handler that swallows the exception and goes on with the next iteration.
OnException_Swallowed(rec, message) == NextIteration([rec EXCEPT !.raised = message])

\* except Exception as e: the result is the error text, announced with status
\* "error".
OnException(rec, message) == Finished(rec, ErrorResult(message), "error", message, FALSE)

\* A loop that takes a response whose finish_reason is 'error' as a failure.
OnResponse_ErrorFails(rec, response) ==
    IF response.kind = "raise" \/ response.finish_reason = "error"
    THEN OnException(rec, response.content)
    ELSE IF has_tool_calls(response)
    THEN [rec EXCEPT !.pc = "await_tool", !.pending = response.tool_calls]
    ELSE Finished(rec,
                  IF response.content = NoText THEN CannedResult ELSE response.content,
                  "ok", NoText, FALSE)

\* The loop body once provider.chat has answered (or raised).
OnResponse(rec, response) ==
    IF response.kind = "raise" THEN OnException(rec, response.content)
    ELSE IF has_tool_calls(response)
    THEN [rec EXCEPT !.pc = "await_tool", !.pending = response.tool_calls]
    ELSE Finished(rec,
                  IF response.content = NoText THEN CannedResult ELSE response.content,
                  "ok", NoText, FALSE)

\* A loop that goes on to the next chat call after the first tool call.
OnToolResult_FirstOnly(rec) == NextIteration(rec)

\* The loop body once tools.execute(...) of the first pending tool call has
\* returned its text: the next tool call, or the next iteration.
OnToolResult(rec) ==
    IF Len(rec.pending) > 1
    THEN [rec EXCEPT !.pending = Tail(@)]
    ELSE NextIteration(rec)

\* A task that runs its coroutine up to the first await before create_task returns.
create_task_eager(task_id, task, label, origin) ==
    Start([NoSub EXCEPT !.pc = "created", !.task_id = task_id, !.task = task,
                        !.label = label, !.origin = origin])

\* asyncio.create_task(self._run_subagent(task_id, task, display_label, origin)):
\* the coroutine is scheduled and has not run yet.
create_task(task_id, task, label, origin) ==
    [NoSub EXCEPT !.pc = "created", !.task_id = task_id, !.task = task,
                  !.label = label, !.origin = origin]

\* The text spawn returns.
SpawnStatus(label, task_id) ==
    <<"Subagent [", label, "] started (id: ", task_id,
      "). I will notify you when it completes.">>

\* SubagentManager.spawn
Spawn(task, label, origin, task_id) ==
    /\ nspawned < MaxSpawns
    /\ LET i == nspawned + 1
           display_label == DisplayLabel(task, label)
       IN /\ nspawned' = i
          /\ sub' = [sub EXCEPT ![i] = create_task(task_id, task, display_label, origin)]
          /\ _running_tasks' =
                [k \in DOMAIN _running_tasks \cup {task_id} |->
                    IF k = task_id THEN i ELSE _running_tasks[k]]
          /\ spawn_calls' = Append(spawn_calls,
                                   [task |-> task, label |-> label,
                                    origin_channel |-> origin.channel,
                                    origin_chat_id |-> origin.chat_id,
                                    returned |-> SpawnStatus(display_label, task_id)])
    /\ UNCHANGED <<inbound, registryVars, serviceVars>>

\* MessageBus.publish_inbound: the message is put at the end of the queue.
publish_inbound(queue, msg) == Append(queue, msg)

\* The coroutine of spawn i moves to new; when that ends it, its announcement
\* has been put on the inbound queue (MessageBus.publish_inbound).
Advance(i, new) ==
    /\ sub' = [sub EXCEPT ![i] = new]
    /\ inbound' = IF new.pc = "finished"
                  THEN publish_inbound(inbound, Announcement(i, new, new.result, new.status))
                  ELSE inbound
    /\ UNCHANGED <<nspawned, _running_tasks, spawn_calls, registryVars, serviceVars>>

\* The event loop runs the scheduled coroutine for the first time.
StartStep(i) ==
    /\ sub[i].pc = "created"
    /\ Advance(i, Start(sub[i]))

\* provider.chat(...) returns response, or raises.
ChatReturns(i, response) ==
    /\ sub[i].pc = "await_chat"
    /\ Advance(i, OnResponse(sub[i], response))

\* tools.execute(tool_call.name, tool_call.arguments) returns.
ToolReturns(i) ==
    /\ sub[i].pc = "await_tool"
    /\ Advance(i, OnToolResult(sub[i]))

\* bg_task.add_done_callback(lambda _: self._running_tasks.pop(task_id, None))
DoneCallback(i) ==
    /\ sub[i].pc = "finished"
    /\ sub' = [sub EXCEPT ![i].pc = "removed"]
    /\ _running_tasks' = [k \in DOMAIN _running_tasks \ {sub[i].task_id} |-> _running_tasks[k]]
    /\ UNCHANGED <<nspawned, inbound, spawn_calls, registryVars, serviceVars>>

\* SubagentManager.get_running_count
get_running_count == Cardinality(DOMAIN _running_tasks)

\* One step of the coroutine of spawn i, or of its done callback.
SubagentStep(i) ==
    \/ StartStep(i)
    \/ \E response \in Responses : ChatReturns(i, response)
    \/ ToolReturns(i)
    \/ DoneCallback(i)

(***************************************************************************)
(* The message bus and the outbound dispatcher (channels/manager.py).      *)
(* A message carries seq, the number of its publication on its queue,      *)
(* which stands for its content.                                           *)
(*                                                                         *)
(* The dispatcher waits in asyncio.wait_for(consume_outbound(), 1.0):      *)
(* wait_for makes a task of consume_outbound() (inner) and waits for a     *)
(* future (waiter) that the end of inner, the timeout and a cancellation   *)
(* release.  ready holds those of the two that the event loop has          *)
(* scheduled to run, in the order in which it runs them.  The queues are   *)
(* first-in first-out queues whose get, when cancelled, leaves the         *)
(* message on the queue (asyncio.Queue).                                   *)
(***************************************************************************)
\* The most messages published on a queue in one run of the model.
MaxMessages == 3

\* ChannelManager.channels: the channels the configuration enables.
Channels == {"telegram", "whatsapp"}

\* The channel names outbound messages are addressed to.
MessageChannels == Channels \cup {"discord"}

\* What a channel's send does: it returns, or raises an Exception.
SendOutcomes == {"return", "raise"}

NoMessage == [channel |-> "", seq |-> 0]

\* asyncio.Queue.put on the outbound queue (MessageBus.publish_outbound)
publish_outbound(queue, msg) == Append(queue, msg)

\* asyncio.Queue.get: the item taken and the queue that remains
\* (MessageBus.consume_outbound, MessageBus.consume_inbound)
QueueGet(queue) == [item |-> Head(queue), rest |-> Tail(queue)]

\* A get that, cancelled after a put has woken it, takes the message with it.
CancelledGet_Drops(queue, inner) == IF inner = "woken" THEN Tail(queue) ELSE queue

\* asyncio.Queue.get is cancelled while it waits (inner is "getting") or after
\* a put has woken it ("woken"): the queue it leaves.
CancelledGet(queue, inner) == queue

\* The dispatcher before start_all.
NoTask ==
    [pc |-> "none", msg |-> NoMessage, inner |-> "none", waiter |-> "none",
     ready |-> <<>>, must_cancel |-> FALSE, stopping |-> FALSE, raced |-> FALSE]

\* The variables the bus and the dispatcher leave alone.
notBusVars == <<registryVars, nspawned, _running_tasks, sub, spawn_calls,
                heartbeatVars, classifyVars, cronVars, adapterVars>>

\* The messages published on a queue so far: those taken and those waiting.
Published(taken, queue) == Len(taken) + Len(queue)

\* The top of the loop: msg = await asyncio.wait_for(self.bus.consume_outbound(),
\* timeout=1.0).  The task inner is made and scheduled; the dispatcher waits.
wait_for(task) ==
    [task EXCEPT !.pc = "wait_for", !.msg = NoMessage, !.inner = "new",
                 !.waiter = "pending", !.ready = <<"inner">>, !.must_cancel = FALSE]

\* A dispatcher that does not wait for send to end.
Dispatch_NoAwait(msg) == [pc |-> "wait_for", msg |-> NoMessage]

\* channel = self.channels.get(msg.channel); if channel: await channel.send(msg)
\* else: logger.warning(...).  Where the dispatcher stands after it has got msg.
Dispatch(msg) ==
    IF msg.channel \in Channels
    THEN [pc |-> "sending", msg |-> msg]
    ELSE [pc |-> "wait_for", msg |-> NoMessage]

\* A dispatcher that an Exception of send ends.
AfterSend_Propagates(task, outcome) ==
    IF outcome = "raise"
    THEN [task EXCEPT !.pc = "failed", !.msg = NoMessage]
    ELSE wait_for(task)

\* except Exception as e: logger.error(...); then the loop goes on.
AfterSend(task, outcome) == wait_for(task)

\* Queue.put_nowait wakes the getter that waits on the queue.
Wakeup(task) ==
    IF task.inner = "getting"
    THEN [task EXCEPT !.inner = "woken", !.ready = Append(@, "inner")]
    ELSE task

\* A caller publishes a message for channel on the outbound queue.
PublishOutbound(channel) ==
    /\ npublished < MaxMessages
    /\ npublished' = npublished + 1
    /\ outbound' = publish_outbound(outbound, [channel |-> channel, seq |-> npublished + 1])
    /\ _dispatch_task' = Wakeup(_dispatch_task)
    /\ UNCHANGED <<dispatched, consumed, inbound, notBusVars>>

\* ChannelManager.start_all, which the gateway calls once: the dispatcher is
\* created and runs up to its first wait_for.
StartAll ==
    /\ _dispatch_task.pc = "none"
    /\ _dispatch_task' = wait_for(_dispatch_task)
    /\ UNCHANGED <<outbound, npublished, dispatched, consumed, inbound, notBusVars>>

\* The second of wait_for's timeout is over before inner has ended.
Timeout ==
    /\ _dispatch_task.pc = "wait_for"
    /\ _dispatch_task.waiter = "pending"
    /\ _dispatch_task' = [_dispatch_task EXCEPT !.waiter = "timeout",
                                                !.ready = Append(@, "outer")]
    /\ UNCHANGED <<outbound, npublished, dispatched, consumed, inbound, notBusVars>>

\* The event loop runs inner, the task of consume_outbound(): it takes the
\* head of the queue and ends, which releases the waiter, or it finds the
\* queue empty and waits for a put.
RunInner ==
    /\ _dispatch_task.ready # <<>>
    /\ Head(_dispatch_task.ready) = "inner"
    /\ IF outbound = <<>>
       THEN /\ _dispatch_task' = [_dispatch_task EXCEPT !.inner = "getting",
                                                        !.ready = Tail(@)]
            /\ UNCHANGED <<outbound, dispatched>>
       ELSE LET got == QueueGet(outbound)
                pending == _dispatch_task.waiter = "pending"
            IN /\ outbound' = got.rest
               /\ _dispatch_task' =
                     [_dispatch_task EXCEPT
                         !.inner = "done", !.msg = got.item,
                         !.waiter = IF pending THEN "done" ELSE @,
                         !.ready = Tail(@) \o (IF pending THEN <<"outer">> ELSE <<>>),
                         !.raced = FALSE]
               /\ dispatched' = Append(dispatched,
                                       [msg |-> got.item, state |-> "taken",
                                        raced |-> _dispatch_task.raced])
    /\ UNCHANGED <<npublished, consumed, inbound, notBusVars>>

\* The event loop runs _dispatch_outbound where it waits in wait_for.  If inner
\* has ended, wait_for returns its message, also when the dispatcher was
\* cancelled meanwhile, and the message is handed to its channel's send, or
\* logged when no such channel is enabled.  Otherwise inner is cancelled, and
\* the dispatcher ends if it was cancelled (except asyncio.CancelledError:
\* break), or tries again after a timeout (except asyncio.TimeoutError:
\* continue).
RunOuter ==
    /\ _dispatch_task.ready # <<>>
    /\ Head(_dispatch_task.ready) = "outer"
    /\ IF _dispatch_task.inner = "done"
       THEN LET next == Dispatch(_dispatch_task.msg)
            IN /\ _dispatch_task' =
                     IF next.pc = "sending"
                     THEN [_dispatch_task EXCEPT
                              !.pc = "sending", !.msg = next.msg, !.inner = "none",
                              !.waiter = "none", !.ready = <<>>, !.must_cancel = FALSE]
                     ELSE wait_for(_dispatch_task)
               /\ dispatched' = [dispatched EXCEPT ![Len(dispatched)].state =
                                    IF _dispatch_task.msg.channel \in Channels
                                    THEN "sending" ELSE "unknown"]
               /\ UNCHANGED outbound
       ELSE /\ outbound' = CancelledGet(outbound, _dispatch_task.inner)
            /\ _dispatch_task' =
                  IF _dispatch_task.waiter = "cancelled" \/ _dispatch_task.must_cancel
                  THEN [_dispatch_task EXCEPT
                           !.pc = "cancelled", !.inner = "none", !.waiter = "none",
                           !.ready = <<>>, !.must_cancel = FALSE]
                  ELSE wait_for([_dispatch_task EXCEPT
                                    !.raced = @ \/ _dispatch_task.inner = "woken"])
            /\ UNCHANGED dispatched
    /\ UNCHANGED <<npublished, consumed, inbound, notBusVars>>

\* channel.send(msg) returns or raises; the exception is logged.
SendReturns(outcome) ==
    /\ _dispatch_task.pc = "sending"
    /\ _dispatch_task' = AfterSend(_dispatch_task, outcome)
    /\ dispatched' = [dispatched EXCEPT ![Len(dispatched)].state =
                          IF outcome = "raise" THEN "failed" ELSE "sent"]
    /\ UNCHANGED <<outbound, npublished, consumed, inbound, notBusVars>>

\* ChannelManager.stop_all: self._dispatch_task.cancel(), and stop_all waits for
\* the dispatcher to end.  A dispatcher in send ends there; one that waits in
\* wait_for is scheduled with the cancellation, or, if it is scheduled
\* already, finds it when it runs.
StopAll ==
    /\ _dispatch_task.pc \in {"wait_for", "sending"}
    /\ ~_dispatch_task.stopping
    /\ _dispatch_task' =
          IF _dispatch_task.pc = "sending"
          THEN [_dispatch_task EXCEPT !.pc = "cancelled", !.msg = NoMessage,
                                      !.stopping = TRUE]
          ELSE IF _dispatch_task.waiter = "pending"
          THEN [_dispatch_task EXCEPT !.waiter = "cancelled",
                                      !.ready = Append(@, "outer"), !.stopping = TRUE]
          ELSE [_dispatch_task EXCEPT !.must_cancel = TRUE, !.stopping = TRUE]
    /\ UNCHANGED <<outbound, npublished, dispatched, consumed, inbound, notBusVars>>

\* A channel publishes a message on the inbound queue.
PublishInbound(channel) ==
    /\ Published(consumed, inbound) < MaxMessages
    /\ inbound' = publish_inbound(inbound,
                     [channel |-> channel, seq |-> Published(consumed, inbound) + 1])
    /\ UNCHANGED <<outbound, npublished, _dispatch_task, dispatched, consumed, notBusVars>>

\* The agent loop takes a message from the inbound queue.
ConsumeInbound ==
    /\ inbound # <<>>
    /\ LET got == QueueGet(inbound)
       IN /\ inbound' = got.rest
          /\ consumed' = Append(consumed, got.item)
    /\ UNCHANGED <<outbound, npublished, _dispatch_task, dispatched, notBusVars>>

\* One step of the dispatcher's tasks.
DispatcherStep ==
    \/ RunInner
    \/ RunOuter
    \/ \E outcome \in SendOutcomes : SendReturns(outcome)

DispatcherNext ==
    \/ \E channel \in MessageChannels : PublishOutbound(channel)
    \/ StartAll
    \/ Timeout
    \/ RunInner
    \/ RunOuter
    \/ \E outcome \in SendOutcomes : SendReturns(outcome)
    \/ StopAll

BusNext ==
    \/ \E channel \in MessageChannels : PublishOutbound(channel)
    \/ StartAll
    \/ Timeout
    \/ RunInner
    \/ RunOuter
    \/ \E outcome \in SendOutcomes : SendReturns(outcome)
    \/ StopAll
    \/ \E channel \in Channels : PublishInbound(channel)
    \/ ConsumeInbound

(***************************************************************************)
(* The heartbeat service (heartbeat/service.py).                           *)
(*                                                                         *)
(* The text of HEARTBEAT.md is a sequence of pieces: a newline, a run of   *)
(* white space, the characters "#" and "<!--", one of the four checkbox    *)
(* placeholders, or "t", a run of other text that holds no white space and *)
(* starts with none of these.                                              *)
(***************************************************************************)
\* The longest text given to _is_heartbeat_empty, in pieces.
MaxContentLen == 4

NL == "\n"
SP == " "

\* skip_patterns without the checked boxes.
skip_patterns_Unchecked == {"- [ ]", "* [ ]"}

\* skip_patterns
skip_patterns == {"- [ ]", "* [ ]", "- [x]", "* [x]"}

Pieces == {NL, SP, "#", "<!--", "t"} \cup {"- [ ]", "* [ ]", "- [x]", "* [x]"}

Contents == UNION {[1..n -> Pieces] : n \in 0..MaxContentLen}

\* content.split("\n"): the lines between the newlines
RECURSIVE Split(_, _)
Split(text, line) ==
    IF text = <<>> THEN <<line>>
    ELSE IF Head(text) = NL THEN <<line>> \o Split(Tail(text), <<>>)
    ELSE Split(Tail(text), Append(line, Head(text)))

\* line.strip(): without the white space at its start and at its end
RECURSIVE LStrip(_)
LStrip(line) ==
    IF line # <<>> /\ Head(line) = SP THEN LStrip(Tail(line)) ELSE line

RECURSIVE RStrip(_)
RStrip(line) ==
    IF line # <<>> /\ line[Len(line)] = SP
    THEN RStrip(SubSeq(line, 1, Len(line) - 1))
    ELSE line

Strip(line) == RStrip(LStrip(line))

\* line.startswith(prefix), for a prefix that is one piece
StartsWith(line, prefix) == line # <<>> /\ Head(line) = prefix

\* not line or line.startswith("#") or line.startswith("<!--") or line in skip_patterns
Skipped(line) ==
    \/ line = <<>>
    \/ StartsWith(line, "#")
    \/ StartsWith(line, "<!--")
    \/ Len(line) = 1 /\ line[1] \in skip_patterns

\* None, and a text: a str whose value is its sequence of pieces.
PyNone == [t |-> "NoneType", v |-> <<>>]
Text(pieces) == [t |-> "str", v |-> pieces]

\* _is_heartbeat_empty: "if not content" holds for None and for the empty text;
\* the loop returns False at the first line it does not skip.
_is_heartbeat_empty(text) ==
    IF text.t = "NoneType" \/ text.v = <<>> THEN TRUE
    ELSE LET lines == Split(text.v, <<>>)
         IN \A i \in 1..Len(lines) : Skipped(Strip(lines[i]))

\* HEARTBEAT_PROMPT
HEARTBEAT_PROMPT == "Read HEARTBEAT.md in your workspace (if it exists). ..."

\* The most calls of start, and the most ticks of one timer loop, in one run of
\* the model.
MaxStarts == 2
MaxTicks == 2

LoopIds == 1..MaxStarts

\* The states HEARTBEAT.md is found in at a tick: it does not exist, the
\* directory cannot be searched (exists() raises), it cannot be read
\* (read_text() raises), or it holds a text.
TickFiles ==
    {[kind |-> "absent", text |-> <<>>],
     [kind |-> "stat_error", text |-> <<>>],
     [kind |-> "unreadable", text |-> <<>>],
     [kind |-> "text", text |-> <<>>],
     [kind |-> "text", text |-> <<"#", "t", NL, "- [ ]">>],
     [kind |-> "text", text |-> <<"- [ ]", SP, "t">>]}

\* HeartbeatService._read_heartbeat_file
_read_heartbeat_file(file) ==
    CASE file.kind = "stat_error" -> [raised |-> TRUE, content |-> PyNone]
      [] file.kind = "text" -> [raised |-> FALSE, content |-> Text(file.text)]
      [] OTHER -> [raised |-> FALSE, content |-> PyNone]

\* A tick that calls the callback whatever the file holds.
_tick_Always(file, callback) ==
    LET read == _read_heartbeat_file(file)
    IN IF read.raised THEN [raised |-> TRUE, invoked |-> 0, prompt |-> None]
       ELSE IF callback # None
       THEN [raised |-> FALSE, invoked |-> 1, prompt |-> HEARTBEAT_PROMPT]
       ELSE [raised |-> FALSE, invoked |-> 0, prompt |-> None]

\* HeartbeatService._tick, up to its await: whether an exception leaves it, how
\* often it calls the callback and with what prompt.
_tick(file, callback) ==
    LET read == _read_heartbeat_file(file)
    IN IF read.raised THEN [raised |-> TRUE, invoked |-> 0, prompt |-> None]
       ELSE IF _is_heartbeat_empty(read.content)
       THEN [raised |-> FALSE, invoked |-> 0, prompt |-> None]
       ELSE IF callback # None
       THEN [raised |-> FALSE, invoked |-> 1, prompt |-> HEARTBEAT_PROMPT]
       ELSE [raised |-> FALSE, invoked |-> 0, prompt |-> None]

\* What the callback does: it returns a text, returns something that is no
\* text (response.upper() raises), or raises an Exception.
CallbackOutcomes == {"text", "no text", "raise"}

\* A timer loop: where it stands, the ticks it has run, whether its last tick
\* failed, and how stop() ended it: where it stood when it was cancelled, or
\* "while" when it found _running false.
NoLoop == [pc |-> "none", ticks |-> 0, failed |-> FALSE, stopped_in |-> ""]

NoTick == [ran |-> FALSE, file |-> [kind |-> "absent", text |-> <<>>], invoked |-> 0,
           prompt |-> None]

\* The variables the heartbeat service leaves alone.
notHeartbeatVars ==
    <<registryVars, subagentVars, busVars, classifyVars, cronVars, adapterVars>>

\* The calls of start so far.
Started == Cardinality({id \in LoopIds : loops[id].pc # "none"})

\* while self._running, at the top of _run_loop
WhileTest(rec) ==
    [rec EXCEPT !.pc = IF _running THEN "sleeping" ELSE "done",
                !.stopped_in = IF _running THEN rec.stopped_in ELSE "while"]

\* A loop that a failed tick ends.
WhileRunning_UntilFailure(rec, failed) ==
    IF failed THEN [rec EXCEPT !.pc = "done", !.failed = TRUE]
    ELSE WhileTest([rec EXCEPT !.failed = FALSE])

\* _run_loop after a tick has ended: except Exception logs the failure, and
\* "while self._running" goes to the next sleep or leaves the loop.
WhileRunning(rec, failed) == WhileTest([rec EXCEPT !.failed = failed])

\* A cancel() that the task does not notice.
Cancel_Ignored(rec) ==
    IF rec.pc \in {"none", "done"} THEN rec
    ELSE [rec EXCEPT !.stopped_in = rec.pc]

\* self._task.cancel(): CancelledError is raised where the task waits (in the
\* sleep, or in the callback it awaits), or before its first step; _run_loop
\* leaves the loop.
Cancel(rec) ==
    IF rec.pc \in {"none", "done"} THEN rec
    ELSE [rec EXCEPT !.pc = "done", !.stopped_in = rec.pc]

\* HeartbeatService.start
HeartbeatStart ==
    /\ Started < MaxStarts
    /\ IF ~enabled
       THEN UNCHANGED <<_running, _task, loops>>
       ELSE /\ _running' = TRUE
            /\ _task' = Started + 1
            /\ loops' = [loops EXCEPT ![Started + 1].pc = "created"]
    /\ UNCHANGED <<enabled, on_heartbeat, last_tick, notHeartbeatVars>>

\* HeartbeatService.stop
HeartbeatStop ==
    /\ _running' = FALSE
    /\ _task' = 0
    /\ loops' = [id \in LoopIds |-> IF id = _task THEN Cancel(loops[id]) ELSE loops[id]]
    /\ UNCHANGED <<enabled, on_heartbeat, last_tick, notHeartbeatVars>>

\* The event loop runs _run_loop for the first time: while self._running
LoopStarts(id) ==
    /\ loops[id].pc = "created"
    /\ loops' = [loops EXCEPT ![id] = WhileTest(loops[id])]
    /\ UNCHANGED <<enabled, on_heartbeat, _running, _task, last_tick, notHeartbeatVars>>

\* asyncio.sleep(self.interval_s) is over: the task is ready to go on.
SleepReturns(id) ==
    /\ loops[id].pc = "sleeping"
    /\ loops[id].ticks < MaxTicks
    /\ loops' = [loops EXCEPT ![id].pc = "woken"]
    /\ UNCHANGED <<enabled, on_heartbeat, _running, _task, last_tick, notHeartbeatVars>>

\* The task goes on after the sleep: if self._running: await self._tick(),
\* with HEARTBEAT.md found as file says.
Resume(id, file) ==
    /\ loops[id].pc = "woken"
    /\ IF ~_running
       THEN /\ loops' = [loops EXCEPT ![id] = WhileTest(loops[id])]
            /\ UNCHANGED last_tick
       ELSE LET tick == _tick(file, on_heartbeat)
                rec == [loops[id] EXCEPT !.ticks = loops[id].ticks + 1, !.failed = FALSE]
            IN /\ last_tick' = [ran |-> TRUE, file |-> file, invoked |-> tick.invoked,
                                prompt |-> tick.prompt]
               /\ loops' = [loops EXCEPT ![id] =
                              IF tick.invoked > 0 THEN [rec EXCEPT !.pc = "callback"]
                              ELSE WhileRunning(rec, tick.raised)]
    /\ UNCHANGED <<enabled, on_heartbeat, _running, _task, notHeartbeatVars>>

\* on_heartbeat(HEARTBEAT_PROMPT) ends; except Exception in _tick logs a failure.
CallbackEnds(id, outcome) ==
    /\ loops[id].pc = "callback"
    /\ loops' = [loops EXCEPT ![id] = WhileRunning(loops[id], outcome # "text")]
    /\ UNCHANGED <<enabled, on_heartbeat, _running, _task, last_tick, notHeartbeatVars>>

\* One step of the timer loop id.
LoopStep(id) ==
    \/ LoopStarts(id)
    \/ SleepReturns(id)
    \/ \E file \in TickFiles : Resume(id, file)
    \/ \E outcome \in CallbackOutcomes : CallbackEnds(id, outcome)

HeartbeatNext ==
    \/ HeartbeatStart
    \/ HeartbeatStop
    \/ \E id \in LoopIds : LoopStarts(id)
    \/ \E id \in LoopIds : SleepReturns(id)
    \/ \E id \in LoopIds, file \in TickFiles : Resume(id, file)
    \/ \E id \in LoopIds, outcome \in CallbackOutcomes : CallbackEnds(id, outcome)

\* _is_heartbeat_empty is applied to content.
Classify ==
    /\ ~classified.done
    /\ classified' = [done |-> TRUE, empty |-> _is_heartbeat_empty(content)]
    /\ UNCHANGED <<content, registryVars, subagentVars, busVars, heartbeatVars, cronVars,
                   adapterVars>>

ClassifyNext == Classify

(***************************************************************************)
(* The cron service.  cron/service.py is described by the specification:   *)
(* add_job, enable_job, list_jobs, run_job and the scheduler's timer      *)
(* follow its section 4.4; the records are those of cron/types.py.         *)
(* Times are counted in a unit of the model (so many milliseconds).        *)
(***************************************************************************)
\* The most jobs added, and the last instant of the clock, in one run of the model.
MaxJobs == 2
MaxNow == 3

JobIds == 1..MaxJobs

\* The periods of the jobs of kind 'every'.
Periods == {2, 3}

\* The timestamps of the jobs of kind 'at'.
AtTimes == {2}

\* What the job callback on_job does: it returns, or raises an Exception.
JobOutcomes == {"ok", "raise"}

\* No time is -1.
NoTime == 0 - 1

\* CronSchedule
CronSchedule(kind, at_ms, every_ms) ==
    [kind |-> kind, at_ms |-> at_ms, every_ms |-> every_ms]

\* The schedules a job is added with.
Schedules ==
    {CronSchedule("every", NoTime, p) : p \in Periods}
        \cup {CronSchedule("at", t, NoTime) : t \in AtTimes}

\* CronJobState()
CronJobState ==
    [next_run_at_ms |-> NoTime, last_run_at_ms |-> NoTime, last_status |-> None,
     last_error |-> None]

\* CronJob
CronJob(id, schedule, state, created, delete_after_run) ==
    [id |-> id, enabled |-> TRUE, schedule |-> schedule, state |-> state,
     created_at_ms |-> created, updated_at_ms |-> created,
     delete_after_run |-> delete_after_run]

\* A next-run computation that counts from the run the job was due for.
compute_next_run_FromDue(schedule, due, now) ==
    IF schedule.kind = "every"
    THEN (IF due = NoTime THEN now ELSE due) + schedule.every_ms
    ELSE IF schedule.kind = "at" THEN schedule.at_ms
    ELSE NoTime

\* The next-fire computation: for 'at', next-run equals the absolute
\* timestamp; for 'every', next-run is now + interval.  due is the next-run
\* the job had before, now the instant of the computation.
compute_next_run(schedule, due, now) ==
    IF schedule.kind = "every" THEN now + schedule.every_ms
    ELSE IF schedule.kind = "at" THEN schedule.at_ms
    ELSE NoTime

\* An on_job whose Exception is not caught.
on_job_Uncaught(outcome) ==
    [status |-> IF outcome = "raise" THEN "error" ELSE "ok",
     error |-> IF outcome = "raise" THEN "boom" ELSE None,
     propagated |-> outcome = "raise"]

\* The callback on_job(job) is invoked; its Exception is caught and recorded.
on_job(outcome) ==
    [status |-> IF outcome = "raise" THEN "error" ELSE "ok",
     error |-> IF outcome = "raise" THEN "boom" ELSE None,
     propagated |-> FALSE]

\* A firing after which a job of kind 'at' stays armed.
execute_job_AtStaysArmed(job, outcome, now) ==
    [job EXCEPT
        !.state = [next_run_at_ms |->
                      compute_next_run(job.schedule, job.state.next_run_at_ms, now),
                   last_run_at_ms |-> now,
                   last_status |-> on_job(outcome).status,
                   last_error |-> on_job(outcome).error],
        !.updated_at_ms = now]

\* A job fires at now: the callback is invoked, last_run_at/last_status are
\* updated and the schedule is re-armed; a job of kind 'at' has fired once and
\* is disabled (or deleted, see stored).
execute_job(job, outcome, now) ==
    [job EXCEPT
        !.enabled = IF job.schedule.kind = "at" THEN FALSE ELSE job.enabled,
        !.state = [next_run_at_ms |->
                      IF job.schedule.kind = "at" THEN NoTime
                      ELSE compute_next_run(job.schedule, job.state.next_run_at_ms, now),
                   last_run_at_ms |-> now,
                   last_status |-> on_job(outcome).status,
                   last_error |-> on_job(outcome).error],
        !.updated_at_ms = now]

\* The store after job has fired: a job of kind 'at' flagged delete_after_run
\* is removed.
stored(store, job) ==
    IF job.schedule.kind = "at" /\ job.delete_after_run
    THEN [j \in DOMAIN store \ {job.id} |-> store[j]]
    ELSE [store EXCEPT ![job.id] = job]

\* list_jobs(include_disabled): the ids of the jobs listed
list_jobs(include_disabled) ==
    {id \in DOMAIN jobs : include_disabled \/ jobs[id].enabled}

NoJobs == [id \in {} |-> 0]

\* An operation of the service: its name, the job it is about, the job's
\* enabled flag before it, and what the callback did if it was invoked.
NoOp == [op |-> "", id |-> 0, enabled |-> FALSE, outcome |-> ""]

\* What is remembered of every job ever added: its kind, its flag, the times
\* the timer fired it (0, 1, or 2 for more than once), and whether it has fired
\* at all.
Added(job) ==
    [kind |-> job.schedule.kind, delete_after_run |-> job.delete_after_run,
     timer |-> 0, fired |-> FALSE]

\* The variables the cron service leaves alone.
notCronVars ==
    <<registryVars, subagentVars, busVars, heartbeatVars, classifyVars, adapterVars>>

\* add_job
AddJob(schedule, delete_after_run) ==
    /\ Cardinality(DOMAIN added) < MaxJobs
    /\ LET id == Cardinality(DOMAIN added) + 1
           state == [CronJobState EXCEPT
                        !.next_run_at_ms = compute_next_run(schedule, NoTime, now_ms)]
           job == CronJob(id, schedule, state, now_ms, delete_after_run)
       IN /\ jobs' = [j \in DOMAIN jobs \cup {id} |-> IF j = id THEN job ELSE jobs[j]]
          /\ added' = [j \in DOMAIN added \cup {id} |->
                          IF j = id THEN Added(job) ELSE added[j]]
          /\ last_op' = [op |-> "add_job", id |-> id, enabled |-> TRUE,
                         outcome |-> ""]
    /\ UNCHANGED <<now_ms, _timer_task, notCronVars>>

\* enable_job(id, enabled)
EnableJob(id, flag) ==
    /\ id \in DOMAIN jobs
    /\ jobs[id].enabled # flag
    /\ jobs' = [jobs EXCEPT ![id].enabled = flag]
    /\ last_op' = [op |-> "enable_job", id |-> id,
                   enabled |-> jobs[id].enabled, outcome |-> ""]
    /\ UNCHANGED <<now_ms, added, _timer_task, notCronVars>>

\* Time passes.
ClockTicks ==
    /\ now_ms < MaxNow
    /\ now_ms' = now_ms + 1
    /\ last_op' = NoOp
    /\ UNCHANGED <<jobs, added, _timer_task, notCronVars>>

\* The job id fires at now_ms, for the timer or for run_job.  An Exception that
\* on_job lets through leaves the job as it was and ends the caller.
Fire(op, id, outcome) ==
    LET result == on_job(outcome)
    IN /\ jobs' = IF result.propagated THEN jobs
                  ELSE stored(jobs, execute_job(jobs[id], outcome, now_ms))
       /\ added' = [added EXCEPT ![id].timer = IF op = "timer" /\ @ < 2 THEN @ + 1 ELSE @,
                                 ![id].fired = TRUE]
       /\ last_op' = [op |-> op, id |-> id, enabled |-> jobs[id].enabled,
                      outcome |-> outcome]
       /\ _timer_task' = IF result.propagated /\ op = "timer" THEN "failed"
                         ELSE _timer_task

\* A run_job that leaves a disabled job alone.
RunJob_IfEnabled(id, outcome) ==
    /\ id \in DOMAIN jobs
    /\ IF jobs[id].enabled
       THEN Fire("run_job", id, outcome)
       ELSE /\ last_op' = [op |-> "run_job", id |-> id,
                           enabled |-> FALSE, outcome |-> ""]
            /\ UNCHANGED <<jobs, added, _timer_task>>
    /\ UNCHANGED <<now_ms, notCronVars>>

\* The scheduler's timer finds the job id due (enabled, at or after its
\* next-run time) and fires it.
OnTimer(id, outcome) ==
    /\ _timer_task = "armed"
    /\ id \in DOMAIN jobs
    /\ jobs[id].enabled
    /\ jobs[id].state.next_run_at_ms # NoTime
    /\ now_ms >= jobs[id].state.next_run_at_ms
    /\ Fire("timer", id, outcome)
    /\ UNCHANGED <<now_ms, notCronVars>>

\* run_job(id, force=True): the job fires whatever its enabled flag and its
\* next-run time say.
RunJob(id, outcome) ==
    /\ id \in DOMAIN jobs
    /\ Fire("run_job", id, outcome)
    /\ UNCHANGED <<now_ms, notCronVars>>

CronNext ==
    \/ \E schedule \in Schedules, delete_after_run \in BOOLEAN :
          /\ delete_after_run => schedule.kind = "at"
          /\ AddJob(schedule, delete_after_run)
    \/ \E id \in JobIds, flag \in BOOLEAN : EnableJob(id, flag)
    \/ ClockTicks
    \/ \E id \in JobIds, outcome \in JobOutcomes : OnTimer(id, outcome)
    \/ \E id \in JobIds, outcome \in JobOutcomes : RunJob(id, outcome)

(***************************************************************************)
(* The allow-list gate of a channel (channels/base.py).  A sender id is a  *)
(* string, written as the sequence of its characters.                      *)
(***************************************************************************)
\* The longest sender id, in characters.
MaxSenderLen == 3

\* The most messages the channel publishes in one run of the model.
MaxHandled == 2

SenderChars == {"a", "|"}

\* The sender ids a chat platform reports: Telegram's are "id|username".
SenderIds == UNION {[1..n -> SenderChars] : n \in 0..MaxSenderLen}

\* config.allow_from: no list, or a list of user ids and user names.
AllowLists ==
    {{}, {<<"a">>}, {<<"a", "a">>}, {<<"a", "|", "a">>}, {<<>>, <<"a", "a", "a">>}}

\* sender_str.split("|")
RECURSIVE SplitBar(_, _)
SplitBar(str, part) ==
    IF str = <<>> THEN <<part>>
    ELSE IF Head(str) = "|" THEN <<part>> \o SplitBar(Tail(str), <<>>)
    ELSE SplitBar(Tail(str), Append(part, Head(str)))

\* A gate that lets every sender through.
is_allowed_Everyone(allow_list, sender_id) == TRUE

\* BaseChannel.is_allowed
is_allowed(allow_list, sender_id) ==
    IF allow_list = {} THEN TRUE
    ELSE IF sender_id \in allow_list THEN TRUE
    ELSE IF \E k \in 1..Len(sender_id) : sender_id[k] = "|"
    THEN LET parts == SplitBar(sender_id, <<>>)
         IN \E k \in 1..Len(parts) : parts[k] # <<>> /\ parts[k] \in allow_list
    ELSE FALSE

\* InboundMessage(channel=self.name, sender_id=str(sender_id), ...)
InboundMessage(channel, sender_id, chat_id, text) ==
    [channel |-> channel, sender_id |-> sender_id, chat_id |-> chat_id,
     content |-> text]

\* No call of _handle_message yet.
NoHandled == [called |-> FALSE, sender_id |-> <<>>, published |-> FALSE]

\* The variables a channel's gate leaves alone.
notChannelVars ==
    <<registryVars, nspawned, _running_tasks, sub, spawn_calls, busVars, heartbeatVars,
      classifyVars, cronVars, providerVars, sessionVars, transcriptVars, edgeVars>>

\* BaseChannel._handle_message of the channel telegram
HandleMessage(sender_id) ==
    /\ Len(inbound) < MaxHandled
    /\ LET allowed == is_allowed(allow_from, sender_id)
           msg == InboundMessage("telegram", sender_id, "chat", "hello")
       IN /\ inbound' = IF allowed THEN publish_inbound(inbound, msg) ELSE inbound
          /\ handled' = [called |-> TRUE, sender_id |-> sender_id, published |-> allowed]
    /\ UNCHANGED <<allow_from, notChannelVars>>

ChannelNext == \E sender_id \in SenderIds : HandleMessage(sender_id)

(***************************************************************************)
(* The completion backend (providers/litellm_provider.py).  A model name   *)
(* is a sequence of pieces: provider prefixes that end with "/" and a      *)
(* base name; no model (None) is the empty name.  LLMResponse is that of   *)
(* providers/base.py, as the specification describes it.                   *)
(***************************************************************************)
\* The model argument of chat: None, or a name with or without a prefix.
ModelNames ==
    LET prefixes == {"openrouter/", "zai/", "zhipu/", "dashscope/", "moonshot/",
                     "gemini/", "openai/"}
        bases == {"glm-4", "GLM-4", "qwen-max", "kimi-k2.5", "gemini-pro",
                  "claude-opus-4-5"}
    IN {<<>>} \cup {<<b>> : b \in bases} \cup {<<p, b>> : p \in prefixes, b \in bases}

\* LiteLLMProvider.__init__: api_key and api_base as configured
ProviderConfigs ==
    {[api_key |-> k, api_base |-> b] :
        k \in {None, "sk-or-v1", "sk-v1"},
        b \in {None, "https://openrouter.ai/api/v1", "http://localhost:8000/v1"}}

\* self.is_openrouter
is_openrouter(config) ==
    config.api_key = "sk-or-v1" \/ config.api_base = "https://openrouter.ai/api/v1"

\* self.is_vllm = bool(api_base) and not self.is_openrouter
is_vllm(config) == config.api_base # None /\ ~is_openrouter(config)

\* The keyword arguments chat hands to acompletion: the model name with the
\* prefixes chat puts in front of it, the temperature (in tenths), api_base
\* and tool_choice.
CompletionKwargs(config, model, tools) ==
    LET lower(piece) == IF piece = "GLM-4" THEN "glm-4" ELSE piece
        keywords(piece) ==
            CASE piece = "glm-4" -> {"glm"}
              [] piece = "zhipu/" -> {"zhipu"}
              [] piece = "qwen-max" -> {"qwen"}
              [] piece = "dashscope/" -> {"dashscope"}
              [] piece = "moonshot/" -> {"moonshot"}
              [] piece = "kimi-k2.5" -> {"kimi", "kimi-k2.5"}
              [] piece \in {"gemini/", "gemini-pro"} -> {"gemini"}
              [] OTHER -> {}
        \* keyword in m.lower()
        in_lower(keyword, m) == \E k \in 1..Len(m) : keyword \in keywords(lower(m[k]))
        \* m.startswith(prefix)
        startswith(m, prefix) == m # <<>> /\ Head(m) = prefix
        m0 == IF model = <<>> THEN <<"anthropic/", "claude-opus-4-5">> ELSE model
        m1 == IF is_openrouter(config) /\ ~startswith(m0, "openrouter/")
              THEN <<"openrouter/">> \o m0 ELSE m0
        m2 == IF (in_lower("glm", m1) \/ in_lower("zhipu", m1))
                 /\ ~(startswith(m1, "zhipu/") \/ startswith(m1, "zai/")
                      \/ startswith(m1, "openrouter/"))
              THEN <<"zai/">> \o m1 ELSE m1
        m3 == IF (in_lower("qwen", m2) \/ in_lower("dashscope", m2))
                 /\ ~(startswith(m2, "dashscope/") \/ startswith(m2, "openrouter/"))
              THEN <<"dashscope/">> \o m2 ELSE m2
        m4 == IF (in_lower("moonshot", m3) \/ in_lower("kimi", m3))
                 /\ ~(startswith(m3, "moonshot/") \/ startswith(m3, "openrouter/"))
              THEN <<"moonshot/">> \o m3 ELSE m3
        m5 == IF in_lower("gemini", m4) /\ ~startswith(m4, "gemini/")
              THEN <<"gemini/">> \o m4 ELSE m4
        resolved == IF is_vllm(config) THEN <<"hosted_vllm/">> \o m5 ELSE m5
    IN [model |-> resolved,
        temperature |-> IF in_lower("kimi-k2.5", resolved) THEN 10 ELSE 7,
        api_base |-> config.api_base,
        tool_choice |-> IF tools # <<>> THEN "auto" ELSE None]

\* LLMResponse(content, tool_calls, finish_reason); tool_calls is empty unless
\* given.  raised names the exception that leaves the call instead, if any.
LLMResponse(text, tool_calls, finish_reason) ==
    [raised |-> None, content |-> text, tool_calls |-> tool_calls,
     finish_reason |-> finish_reason]

\* What acompletion does: it returns a response with choices, whose message
\* holds a text or tool calls with their arguments as a JSON string; it
\* returns a response without choices; it raises an Exception; or the task
\* is cancelled while it waits (CancelledError is no Exception).
Completions ==
    {[kind |-> "response", content |-> <<"hello">>, tool_calls |-> <<>>,
      finish_reason |-> "stop"],
     [kind |-> "response", content |-> <<"hello">>, tool_calls |-> <<>>,
      finish_reason |-> None],
     [kind |-> "response", content |-> NoText,
      tool_calls |-> <<[id |-> "call_1", name |-> "read_file", arguments |-> "{json}"]>>,
      finish_reason |-> "tool_calls"],
     [kind |-> "response", content |-> NoText,
      tool_calls |-> <<[id |-> "call_1", name |-> "read_file", arguments |-> "not json"]>>,
      finish_reason |-> "tool_calls"],
     [kind |-> "no choices", content |-> <<"list index out of range">>, tool_calls |-> <<>>,
      finish_reason |-> None],
     [kind |-> "Exception", content |-> <<"rate limit exceeded">>, tool_calls |-> <<>>,
      finish_reason |-> None],
     [kind |-> "CancelledError", content |-> <<>>, tool_calls |-> <<>>,
      finish_reason |-> None]}

\* LiteLLMProvider._parse_response, for a response with choices
_parse_response(completion) ==
    LET \* json.loads(args), or {"raw": args} when args is no JSON
        parsed(args) == IF args = "{json}" THEN PyDict([path |-> PyStr("notes.md")])
                        ELSE PyDict([raw |-> PyStr(args)])
    IN LLMResponse(completion.content,
                   [k \in 1..Len(completion.tool_calls) |->
                       [id |-> completion.tool_calls[k].id,
                        name |-> completion.tool_calls[k].name,
                        arguments |-> parsed(completion.tool_calls[k].arguments)]],
                   IF completion.finish_reason = None THEN "stop"
                   ELSE completion.finish_reason)

\* The exception that leaves a call, with its text.
Raises(kind, text) ==
    [raised |-> kind, content |-> text, tool_calls |-> <<>>, finish_reason |-> None]

\* A chat without its try / except.
chat_Uncaught(completion) ==
    CASE completion.kind = "response" -> _parse_response(completion)
      [] completion.kind = "no choices" -> Raises("IndexError", completion.content)
      [] OTHER -> Raises(completion.kind, completion.content)

\* LiteLLMProvider.chat, from try: on.  except Exception returns the error as
\* the content of a response.
chat(completion) ==
    CASE completion.kind = "response" -> _parse_response(completion)
      [] completion.kind \in {"no choices", "Exception"} ->
            LLMResponse(<<"Error calling LLM: ">> \o completion.content, <<>>, "error")
      [] OTHER -> Raises(completion.kind, completion.content)

\* No call of chat yet.
NoChat == [called |-> FALSE, model |-> <<>>, kwargs |-> None, completion |-> None,
           response |-> None]

\* The variables the provider leaves alone.
notProviderVars ==
    <<registryVars, subagentVars, busVars, heartbeatVars, classifyVars, cronVars,
      channelVars, sessionVars, transcriptVars, edgeVars>>

\* The one call of LiteLLMProvider.chat that is followed, with no tool
\* definitions or with those of a registry.
Chat(model, tools, completion) ==
    /\ ~chat_call.called
    /\ chat_call' = [called |-> TRUE, model |-> model,
                     kwargs |-> CompletionKwargs(provider, model, tools),
                     completion |-> completion, response |-> chat(completion)]
    /\ UNCHANGED <<provider, notProviderVars>>

ProviderNext ==
    \E model \in ModelNames, tools \in {<<>>, <<"read_file">>},
       completion \in Completions :
        Chat(model, tools, completion)

(***************************************************************************)
(* A session's message log (session/manager.py).  The timestamp of a       *)
(* message is the number of the add_message call that made it.             *)
(***************************************************************************)
\* The most calls of add_message in one run of the model.
MaxAdds == 3

Roles == {"user", "assistant"}

MessageTexts == {"hi", "ok"}

\* max_messages of get_history
HistoryLimits == {1, 2, 50}

\* Session(key=key)
NoSession == [messages |-> <<>>, adds |-> 0]

\* No operation on the session yet.
NoSessionOp == [op |-> "", before |-> <<>>, returned |-> <<>>]

\* self.messages[-max_messages:] if len(self.messages) > max_messages else self.messages
Recent(log, max_messages) ==
    IF Len(log) > max_messages
    THEN SubSeq(log, Len(log) - max_messages + 1, Len(log))
    ELSE log

\* Session.get_history: role and content of the recent messages
get_history(log, max_messages) ==
    LET recent == Recent(log, max_messages)
    IN [k \in 1..Len(recent) |-> [role |-> recent[k].role, content |-> recent[k].content]]

\* The variables a session leaves alone.
notSessionVars ==
    <<registryVars, subagentVars, busVars, heartbeatVars, classifyVars, cronVars,
      channelVars, providerVars, transcriptVars, edgeVars>>

\* Session.add_message
AddMessage(role, text) ==
    /\ session.adds < MaxAdds
    /\ LET msg == [role |-> role, content |-> text, timestamp |-> session.adds + 1]
       IN session' = [messages |-> Append(session.messages, msg),
                      adds |-> session.adds + 1]
    /\ session_op' = [op |-> "add_message", before |-> session.messages, returned |-> <<>>]
    /\ UNCHANGED notSessionVars

\* Session.get_history
GetHistory(max_messages) ==
    /\ session_op' = [op |-> "get_history", before |-> session.messages,
                      returned |-> get_history(session.messages, max_messages)]
    /\ UNCHANGED <<session, notSessionVars>>

\* Session.clear
Clear ==
    /\ session' = [session EXCEPT !.messages = <<>>]
    /\ session_op' = [op |-> "clear", before |-> session.messages, returned |-> <<>>]
    /\ UNCHANGED notSessionVars

SessionNext ==
    \/ \E role \in Roles, text \in MessageTexts : AddMessage(role, text)
    \/ \E max_messages \in HistoryLimits : GetHistory(max_messages)
    \/ Clear

(***************************************************************************)
(* The transcript of one subagent run (agent/subagent.py): the list        *)
(* messages that _run_subagent builds and hands to every chat call.  A     *)
(* turn of the transcript is a record of the keys role, content,           *)
(* tool_calls, tool_call_id and name; a key the turn's dict does not have  *)
(* is empty here.                                                          *)
(***************************************************************************)
\* The most turns of a transcript in one run of the model.
MaxTurns == 7

\* json.dumps(tc.arguments): the JSON text of the arguments
JsonDumps(arguments) == [json |-> arguments]

\* SubagentManager._build_subagent_prompt
_build_subagent_prompt(task) ==
    <<"# Subagent ... ## Your task ", task, " ## Rules ... ## Workspace ...">>

\* {"role": "system", "content": system_prompt}, {"role": "user", "content": task}
SeedTurns(task) ==
    <<[role |-> "system", content |-> _build_subagent_prompt(task), tool_calls |-> <<>>,
       tool_call_id |-> "", name |-> ""],
      [role |-> "user", content |-> <<task>>, tool_calls |-> <<>>,
       tool_call_id |-> "", name |-> ""]>>

\* response.content or ""
ContentOrEmpty(text) == IF text = NoText THEN <<>> ELSE text

\* tool_call_dicts
tool_call_dicts(tool_calls) ==
    [k \in 1..Len(tool_calls) |->
        [id |-> tool_calls[k].id, type |-> "function",
         function |-> [name |-> tool_calls[k].name,
                       arguments |-> JsonDumps(tool_calls[k].arguments)]]]

\* The assistant turn appended for a response with tool calls.
AssistantTurn(response) ==
    [role |-> "assistant", content |-> ContentOrEmpty(response.content),
     tool_calls |-> tool_call_dicts(response.tool_calls), tool_call_id |-> "",
     name |-> ""]

\* The tool turn appended once tools.execute has returned result.
ToolTurn(tool_call, result) ==
    [role |-> "tool", content |-> result, tool_calls |-> <<>>,
     tool_call_id |-> tool_call.id, name |-> tool_call.name]

\* The subagent run of the transcript, before it starts.
NoRun == NoSub

\* The variables a subagent's transcript leaves alone.
notTranscriptVars ==
    <<registryVars, subagentVars, busVars, heartbeatVars, classifyVars, cronVars,
      channelVars, providerVars, sessionVars, edgeVars>>

\* _run_subagent up to its first chat call: the tools are registered, the
\* transcript is seeded and the loop is entered.
RunSubagent(task) ==
    /\ run.pc = "none"
    /\ run' = Start(create_task("1a2b3c4d", task, task, NoOrigin))
    /\ messages' = SeedTurns(task)
    /\ chat_log' = <<>>
    /\ UNCHANGED notTranscriptVars

\* provider.chat(messages=messages, ...) returns response, or raises.  A
\* response with tool calls appends the assistant turn; any other appends
\* nothing.
TranscriptChat(response) ==
    /\ run.pc = "await_chat"
    /\ has_tool_calls(response) =>
          Len(messages) + 1 + Len(response.tool_calls) =< MaxTurns
    /\ run' = OnResponse(run, response)
    /\ messages' = IF response.kind = "response" /\ has_tool_calls(response)
                   THEN Append(messages, AssistantTurn(response))
                   ELSE messages
    /\ chat_log' = Append(chat_log, response)
    /\ UNCHANGED notTranscriptVars

\* result = await tools.execute(tool_call.name, tool_call.arguments) for the
\* first pending tool call, and the tool turn is appended.
TranscriptTool(outcome) ==
    /\ run.pc = "await_tool"
    /\ LET tool_call == Head(run.pending)
           executed == RegistryExecute(run.tools, tool_call.name, tool_call.arguments,
                                       outcome)
       IN messages' = Append(messages, ToolTurn(tool_call, executed.result))
    /\ run' = OnToolResult(run)
    /\ UNCHANGED <<chat_log, notTranscriptVars>>

TranscriptNext ==
    \/ \E task \in {"tidy the notes", "fetch the news"} : RunSubagent(task)
    \/ \E response \in Responses : TranscriptChat(response)
    \/ \E outcome \in ToolOutcomes : TranscriptTool(outcome)

(***************************************************************************)
(* The spawn tool (agent/tools/spawn.py): the one SpawnTool of the main    *)
(* agent, whose context the agent loop sets for the conversation it        *)
(* serves.                                                                 *)
(***************************************************************************)
\* The conversations set_context is called for.
Contexts ==
    {[channel |-> "telegram", chat_id |-> "42"], [channel |-> "whatsapp", chat_id |-> "7"]}

\* The responses of the backend that carry no tool call.
FinalResponses == {r \in Responses : r.tool_calls = <<>>}

\* SpawnTool.__init__
SpawnToolInit ==
    /\ _origin_channel = "cli"
    /\ _origin_chat_id = "direct"

\* SpawnTool.set_context
SetContext(channel, chat_id) ==
    /\ _origin_channel' = channel
    /\ _origin_chat_id' = chat_id
    /\ UNCHANGED notSpawnToolVars

\* SpawnTool.execute: SubagentManager.spawn with the context of the tool
SpawnToolExecute(task, label, task_id) ==
    Spawn(task, label, [channel |-> _origin_channel, chat_id |-> _origin_chat_id], task_id)

SpawnToolNext ==
    \/ \E context \in Contexts : SetContext(context.channel, context.chat_id)
    \/ \E input \in SpawnInputs, task_id \in TaskIds :
          SpawnToolExecute(input.task, input.label, task_id)
    \/ \E i \in Spawns : StartStep(i)
    \/ \E i \in Spawns, response \in FinalResponses : ChatReturns(i, response)
    \/ \E i \in Spawns : DoneCallback(i)

(***************************************************************************)
(* A subagent loop whose backend is a LiteLLMProvider: what the loop gets  *)
(* from provider.chat is what chat makes of the completion call.           *)
(***************************************************************************)
\* What acompletion does while the subagent's task is not cancelled.
BackendOutcomes == {c \in Completions : c.kind # "CancelledError"}

\* What _run_subagent gets from await self.provider.chat(...): the response
\* chat returned, or the exception that left it.
Awaited(response) ==
    [kind |-> IF response.raised = None THEN "response" ELSE "raise",
     content |-> response.content, tool_calls |-> response.tool_calls,
     finish_reason |-> response.finish_reason]

\* No completion call was made yet for any spawn.
BackendInit == last_completion = [i \in Spawns |-> ""]

\* The completion call of spawn i ends as completion says, chat returns, and
\* the loop of _run_subagent goes on with the response up to its next await.
BackendReturns(i, completion) ==
    /\ sub[i].pc = "await_chat"
    /\ LET new == OnResponse(sub[i], Awaited(chat(completion)))
       IN /\ sub' = [sub EXCEPT ![i] = new]
          /\ inbound' = IF new.pc = "finished"
                        THEN publish_inbound(inbound,
                                             Announcement(i, new, new.result, new.status))
                        ELSE inbound
    /\ last_completion' = [last_completion EXCEPT ![i] = completion.kind]
    /\ UNCHANGED <<nspawned, _running_tasks, spawn_calls, registryVars, busVars,
                   heartbeatVars, classifyVars, cronVars, channelVars, providerVars,
                   sessionVars, transcriptVars, otherBackendVars>>

BackendNext ==
    \/ \E input \in SpawnInputs, task_id \in TaskIds :
          Spawn(input.task, input.label, input.origin, task_id)
    \/ \E i \in Spawns : StartStep(i)
    \/ \E i \in Spawns, completion \in BackendOutcomes : BackendReturns(i, completion)
    \/ \E i \in Spawns : ToolReturns(i)
    \/ \E i \in Spawns : DoneCallback(i)

(***************************************************************************)
(* The Feishu channel's handling of received messages                      *)
(* (channels/feishu.py).  The WebSocket thread calls _on_message_sync for  *)
(* every event, which schedules one _on_message coroutine on the event     *)
(* loop; the loop runs one coroutine at a time, from one await that        *)
(* suspends to the next.  A message id is written as a number: the ids 1   *)
(* to max_processed - 1 are those of earlier messages.  The content of a   *)
(* message is written by what json.loads makes of it.                      *)
(***************************************************************************)
\* The most events delivered in one run of the model.
MaxEvents == 3

\* while len(self._processed_message_ids) > 1000
max_processed == 1000

\* message.content: a JSON object with or without the key "text", a JSON
\* array, and a text that is no JSON.
JsonText == [json |-> "object", text |-> "hi", raw |-> "{\"text\": \"hi\"}"]
JsonNoText == [json |-> "object", text |-> "", raw |-> "{}"]
JsonArray == [json |-> "array", text |-> "", raw |-> "[1]"]
NotJson == [json |-> "invalid", text |-> "", raw |-> "hi there"]

\* data.event: the fields of message and sender that _on_message reads.
FeishuEvents ==
    LET event(message_id, sender_type, chat_type, message_type, body) ==
            [message_id |-> message_id, sender_type |-> sender_type,
             open_id |-> <<"a">>, chat_id |-> <<"a", "a">>, chat_type |-> chat_type,
             message_type |-> message_type, body |-> body]
    IN {event(1, "user", "p2p", "text", JsonText),
        event(1, "user", "p2p", "text", JsonArray),
        event(max_processed + 1, "user", "p2p", "text", JsonText),
        event(max_processed + 1, "user", "group", "text", NotJson),
        event(max_processed + 1, "user", "p2p", "text", JsonNoText),
        event(max_processed + 1, "user", "p2p", "text", JsonArray),
        event(max_processed + 1, "user", "group", "image", JsonNoText),
        event(max_processed + 1, "user", "p2p", "video", JsonNoText),
        event(max_processed + 2, "user", "p2p", "text", JsonText),
        event(max_processed + 2, "bot", "p2p", "text", JsonText)}

\* The message ids of the events.
MessageIds == {event.message_id : event \in FeishuEvents}

\* MSG_TYPE_MAP.get(msg_type, f"[{msg_type}]")
MSG_TYPE_MAP(msg_type) ==
    CASE msg_type = "image" -> "[image]"
      [] msg_type = "audio" -> "[audio]"
      [] msg_type = "file" -> "[file]"
      [] msg_type = "sticker" -> "[sticker]"
      [] OTHER -> "[" \o msg_type \o "]"

\* The content _on_message forwards: json.loads(message.content).get("text", "")
\* of a text message, the content itself when it is no JSON, an AttributeError
\* when the JSON is no object; the display text of any other message type.
ParseContent(event) ==
    IF event.message_type = "text"
    THEN CASE event.body.json = "object" -> [kind |-> "return", text |-> event.body.text]
           [] event.body.json = "invalid" -> [kind |-> "return", text |-> event.body.raw]
           [] OTHER -> [kind |-> "raise", text |-> "AttributeError"]
    ELSE [kind |-> "return", text |-> MSG_TYPE_MAP(event.message_type)]

\* message_id in self._processed_message_ids
Processed(cache, message_id) == \E k \in 1..Len(cache) : cache[k] = message_id

\* A cache that nothing is put into.
MarkProcessed_Forgets(cache, message_id) == cache

\* self._processed_message_ids[message_id] = None, and then popitem(last=False)
\* while the cache holds more than max_processed ids
MarkProcessed(cache, message_id) ==
    LET put == Append(cache, message_id)
    IN IF Len(put) > max_processed
       THEN SubSeq(put, Len(put) - max_processed + 1, Len(put))
       ELSE put

\* FeishuChannel.__init__
FeishuInit ==
    /\ _processed_message_ids = <<>>
    /\ on_message = <<>>
    /\ evictions = [id \in MessageIds |-> 0]

\* The channel after start() and max_processed - 1 messages, all handled.
FeishuStarted ==
    /\ _processed_message_ids = [k \in 1..(max_processed - 1) |-> k]
    /\ on_message = <<>>
    /\ evictions = [id \in MessageIds |-> 0]

\* The variables the Feishu channel leaves alone.
notFeishuCore ==
    <<registryVars, nspawned, _running_tasks, sub, spawn_calls, busVars, heartbeatVars,
      classifyVars, cronVars, channelVars, providerVars, sessionVars, transcriptVars>>

\* _on_message_sync: run_coroutine_threadsafe(self._on_message(data), self._loop)
OnMessageSync(event) ==
    /\ Len(on_message) < MaxEvents
    /\ on_message' = Append(on_message, [event |-> event, pc |-> "scheduled"])
    /\ UNCHANGED <<_processed_message_ids, evictions, inbound, notFeishuCore, otherFeishuVars>>

\* _on_message up to its first await: the test of the cache, the insertion,
\* the trimming and the test of the sender's type.  The loop runs the
\* coroutines in the order in which they were scheduled.
OnMessageBegin(c) ==
    /\ c \in 1..Len(on_message)
    /\ on_message[c].pc = "scheduled"
    /\ \A b \in 1..(c - 1) : on_message[b].pc # "scheduled"
    /\ LET event == on_message[c].event
           cache == _processed_message_ids
       IN IF Processed(cache, event.message_id)
          THEN /\ on_message' = [on_message EXCEPT ![c].pc = "duplicate"]
               /\ UNCHANGED <<_processed_message_ids, evictions>>
          ELSE LET kept == MarkProcessed(cache, event.message_id)
               IN /\ _processed_message_ids' = kept
                  /\ evictions' =
                        [id \in MessageIds |->
                            IF Processed(cache, id) /\ ~Processed(kept, id)
                            THEN evictions[id] + 1 ELSE evictions[id]]
                  /\ on_message' =
                        [on_message EXCEPT
                            ![c].pc = IF event.sender_type = "bot" THEN "bot" ELSE "reacting"]
    /\ UNCHANGED <<inbound, notFeishuCore, otherFeishuVars>>

\* _on_message after await self._add_reaction(...): the content is parsed and,
\* unless it is empty, handed to _handle_message, which publishes it when the
\* sender is allowed; an exception is logged.
OnMessageResume(c) ==
    /\ c \in 1..Len(on_message)
    /\ on_message[c].pc = "reacting"
    /\ LET event == on_message[c].event
           parsed == ParseContent(event)
           reply_to == IF event.chat_type = "group" THEN event.chat_id ELSE event.open_id
           msg == InboundMessage("feishu", event.open_id, reply_to, parsed.text)
                  @@ [metadata |-> [message_id |-> event.message_id,
                                    chat_type |-> event.chat_type,
                                    msg_type |-> event.message_type]]
       IN IF parsed.kind = "raise"
          THEN /\ on_message' = [on_message EXCEPT ![c].pc = "failed"]
               /\ UNCHANGED inbound
          ELSE IF parsed.text = ""
          THEN /\ on_message' = [on_message EXCEPT ![c].pc = "empty"]
               /\ UNCHANGED inbound
          ELSE /\ on_message' = [on_message EXCEPT ![c].pc = "handled"]
               /\ inbound' = IF is_allowed(allow_from, event.open_id)
                             THEN publish_inbound(inbound, msg)
                             ELSE inbound
    /\ UNCHANGED <<_processed_message_ids, evictions, notFeishuCore, otherFeishuVars>>

FeishuNext ==
    \/ \E event \in FeishuEvents : OnMessageSync(event)
    \/ \E c \in 1..MaxEvents : OnMessageBegin(c)
    \/ \E c \in 1..MaxEvents : OnMessageResume(c)

(***************************************************************************)
(* The gateway's cron callback (cli/commands.py, on_cron_job).  The agent  *)
(* loop (agent/loop.py) is outside: process_direct is awaited and returns  *)
(* a text, returns None or raises.                                         *)
(***************************************************************************)
\* The most jobs that fire in one run of the model.
MaxFires == 2

\* CronPayload: deliver, channel and to of a job; channel and to are None
\* unless they are given, and may be given as the empty text.
CronPayloads ==
    [message : {"ping"}, deliver : BOOLEAN, channel : {None, "", "whatsapp"},
     to : {None, "", "123"}]

\* What await agent.process_direct(...) does.
DirectOutcomes ==
    {[kind |-> "return", response |-> "pong"], [kind |-> "return", response |-> ""],
     [kind |-> "return", response |-> None], [kind |-> "raise", response |-> None]}

\* x or default
PyOr(x, default) == IF x \in {None, ""} THEN default ELSE x

\* A callback that looks at deliver alone.
Delivers_Flag(payload) == payload.deliver

\* if job.payload.deliver and job.payload.to
Delivers(payload) == payload.deliver /\ payload.to \notin {None, ""}

\* OutboundMessage(channel=job.payload.channel or "cli", chat_id=job.payload.to,
\* content=response or "")
OutboundMessage(payload, response) ==
    [channel |-> PyOr(payload.channel, "cli"), chat_id |-> payload.to,
     content |-> PyOr(response, "")]

\* No call of on_cron_job yet.
NoCronCall == [pc |-> "none", payload |-> [message |-> "", deliver |-> FALSE,
                                            channel |-> None, to |-> None],
               response |-> None]

\* The gateway before a job has fired.
GatewayInit ==
    /\ on_cron_job = NoCronCall
    /\ nfired = 0

\* The variables the cron callback leaves alone.
notGatewayCore ==
    <<registryVars, subagentVars, heartbeatVars, classifyVars, cronVars, channelVars,
      providerVars, sessionVars, transcriptVars>>

\* The cron service calls on_cron_job(job), which runs up to
\* await agent.process_direct(...).
OnCronJob(payload) ==
    /\ nfired < MaxFires
    /\ on_cron_job.pc # "awaiting"
    /\ nfired' = nfired + 1
    /\ on_cron_job' = [pc |-> "awaiting", payload |-> payload, response |-> None]
    /\ UNCHANGED <<busVars, notGatewayCore, otherGatewayVars>>

\* process_direct ends: its exception leaves on_cron_job; its response is
\* published on the outbound queue when the payload asks for delivery, and
\* returned.
ProcessDirectEnds(outcome) ==
    /\ on_cron_job.pc = "awaiting"
    /\ LET payload == on_cron_job.payload
       IN IF outcome.kind = "raise"
          THEN /\ on_cron_job' = [on_cron_job EXCEPT !.pc = "raised"]
               /\ UNCHANGED <<outbound, npublished, _dispatch_task>>
          ELSE /\ on_cron_job' = [on_cron_job EXCEPT !.pc = "returned",
                                                      !.response = outcome.response]
               /\ IF Delivers(payload)
                  THEN /\ outbound' = publish_outbound(
                                         outbound, OutboundMessage(payload, outcome.response))
                       /\ npublished' = npublished + 1
                       /\ _dispatch_task' = Wakeup(_dispatch_task)
                  ELSE UNCHANGED <<outbound, npublished, _dispatch_task>>
    /\ UNCHANGED <<nfired, dispatched, consumed, notGatewayCore, otherGatewayVars>>

GatewayNext ==
    \/ \E payload \in CronPayloads : OnCronJob(payload)
    \/ \E outcome \in DirectOutcomes : ProcessDirectEnds(outcome)

(***************************************************************************)
(* The session manager's store (session/manager.py, utils/helpers.py).  A  *)
(* session key and a file name are strings, written as the sequences of    *)
(* their characters; the log of a session is the sequence of its messages, *)
(* and a message is written as the key of the session it was added to.     *)
(* Two session keys are followed.                                          *)
(***************************************************************************)
\* The most characters of a session key.
MaxKeyLen == 3

\* The most messages of one session's log.
MaxLog == 1

\* The characters of a session key: a letter, the colon, the underscore and
\* the space.
KeyChars == {"a", ":", "_", SP}

\* The session keys.
SessionKeys == UNION {[1..n -> KeyChars] : n \in 1..MaxKeyLen}

\* name.replace(char, "_") for every char of unsafe
ReplaceAll(name, unsafe) ==
    [k \in 1..Len(name) |-> IF name[k] \in unsafe THEN "_" ELSE name[k]]

\* safe_filename
safe_filename(name) ==
    Strip(ReplaceAll(name, {"<", ">", ":", "\"", "/", "\\", "|", "?", "*"}))

\* SessionManager._get_session_path: the file's name without ".jsonl"
_get_session_path(key) == safe_filename(ReplaceAll(key, {":"}))

\* mapping[key] = value
Put(mapping, key, value) ==
    [k \in DOMAIN mapping \cup {key} |-> IF k = key THEN value ELSE mapping[k]]

\* mapping.pop(key, None); path.unlink()
Remove(mapping, key) == [k \in DOMAIN mapping \ {key} |-> mapping[k]]

\* SessionManager._load: the messages of the file, None when there is no file
_load(store, key) ==
    IF _get_session_path(key) \in DOMAIN store THEN store[_get_session_path(key)] ELSE None

\* No operation of the session manager yet.
NoStoreOp == [op |-> "", key |-> <<>>]

\* SessionManager.__init__ on an empty sessions directory; k1 and k2 are the
\* keys that are followed.
StoreInit(k1, k2) ==
    /\ keys = {k1, k2}
    /\ _cache = [k \in {} |-> <<>>]
    /\ files = [p \in {} |-> <<>>]
    /\ store_op = NoStoreOp

\* The variables the session manager leaves alone.
notStoreCore ==
    <<registryVars, subagentVars, busVars, heartbeatVars, classifyVars, cronVars,
      channelVars, providerVars, sessionVars, transcriptVars>>

\* SessionManager.get_or_create
GetOrCreate(key) ==
    /\ key \in keys
    /\ _cache' = IF key \in DOMAIN _cache THEN _cache
                 ELSE Put(_cache, key,
                          IF _load(files, key) = None THEN <<>> ELSE _load(files, key))
    /\ store_op' = [op |-> "get_or_create", key |-> key]
    /\ UNCHANGED <<keys, files, notStoreCore, otherStoreVars>>

\* Session.add_message on the session that get_or_create returned for key
StoreAddMessage(key) ==
    /\ key \in DOMAIN _cache
    /\ Len(_cache[key]) < MaxLog
    /\ _cache' = [_cache EXCEPT ![key] = Append(@, key)]
    /\ store_op' = [op |-> "add_message", key |-> key]
    /\ UNCHANGED <<keys, files, notStoreCore, otherStoreVars>>

\* SessionManager.save of the session that get_or_create returned for key
Save(key) ==
    /\ key \in DOMAIN _cache
    /\ files' = Put(files, _get_session_path(key), _cache[key])
    /\ _cache' = Put(_cache, key, _cache[key])
    /\ store_op' = [op |-> "save", key |-> key]
    /\ UNCHANGED <<keys, notStoreCore, otherStoreVars>>

\* SessionManager.delete
Delete(key) ==
    /\ key \in keys
    /\ _cache' = Remove(_cache, key)
    /\ files' = Remove(files, _get_session_path(key))
    /\ store_op' = [op |-> "delete", key |-> key]
    /\ UNCHANGED <<keys, notStoreCore, otherStoreVars>>

StoreNext ==
    \/ \E key \in SessionKeys : GetOrCreate(key)
    \/ \E key \in SessionKeys : StoreAddMessage(key)
    \/ \E key \in SessionKeys : Save(key)
    \/ \E key \in SessionKeys : Delete(key)

(***************************************************************************)
(* The WhatsApp channel (channels/whatsapp.py): the coroutine of start(),  *)
(* calls of stop(), and the bridge at the other end of the websocket.      *)
(* channel_running is the channel's _running.  bridge.open tells whether   *)
(* the websocket that start() made last is open; a websocket that closes   *)
(* ends the "async for" of start(), normally or with an exception, and     *)
(* lets a close() that waits for it return.                                *)
(***************************************************************************)
\* The most messages of the bridge that are forwarded in one run of the model.
MaxBridgeMessages == 2

\* What the bridge sends: a text that is no JSON, a message of a sender, and
\* status updates.
BridgeMessages ==
    {[json |-> FALSE, type |-> "", sender |-> <<>>, text |-> "", status |-> ""],
     [json |-> TRUE, type |-> "message", sender |-> <<"1", "@", "s.whatsapp.net">>,
      text |-> "hi", status |-> ""],
     [json |-> TRUE, type |-> "message", sender |-> <<"1">>,
      text |-> "[voice message]", status |-> ""],
     [json |-> TRUE, type |-> "status", sender |-> <<>>, text |-> "",
      status |-> "connected"],
     [json |-> TRUE, type |-> "status", sender |-> <<>>, text |-> "",
      status |-> "disconnected"],
     [json |-> TRUE, type |-> "qr", sender |-> <<>>, text |-> "", status |-> ""]}

\* sender.split("@")[0] if "@" in sender else sender
RECURSIVE BeforeAt(_)
BeforeAt(sender) ==
    IF sender = <<>> \/ Head(sender) = "@" THEN <<>>
    ELSE <<Head(sender)>> \o BeforeAt(Tail(sender))

\* The message _handle_bridge_message hands to _handle_message.
BridgeInbound(data) ==
    InboundMessage("whatsapp", BeforeAt(data.sender), data.sender,
                   IF data.text = "[voice message]"
                   THEN "[voice message: transcription not available]"
                   ELSE data.text)

\* WhatsAppChannel.__init__; start() and stop() have not been called.
WhatsAppInit ==
    /\ channel_running = FALSE
    /\ _connected = FALSE
    /\ _ws = None
    /\ start_call = "none"
    /\ stop_call = "none"
    /\ bridge = [open |-> FALSE, closed |-> ""]
    /\ late_forwards = 0

\* The variables the WhatsApp channel leaves alone.
notWhatsAppCore ==
    <<registryVars, nspawned, _running_tasks, sub, spawn_calls, busVars, heartbeatVars,
      classifyVars, cronVars, channelVars, providerVars, sessionVars, transcriptVars>>

\* The top of the loop of start(): while self._running
WhileRunningLoop(running) == IF running THEN "connecting" ELSE "ended"

\* except Exception in start(): after the two assignments, if self._running:
\* await asyncio.sleep(5)
AfterError(running) == IF running THEN "sleeping" ELSE "ended"

\* start() up to "async with websockets.connect(bridge_url)"
WhatsAppStart ==
    /\ start_call = "none"
    /\ channel_running' = TRUE
    /\ start_call' = WhileRunningLoop(TRUE)
    /\ UNCHANGED <<_connected, _ws, stop_call, bridge, late_forwards, inbound,
                   notWhatsAppCore, otherWhatsAppVars>>

\* websockets.connect returns the websocket: self._ws = ws,
\* self._connected = True, and start() waits for the first message.
ConnectReturns ==
    /\ start_call = "connecting"
    /\ _ws' = "ws"
    /\ _connected' = TRUE
    /\ bridge' = [open |-> TRUE, closed |-> ""]
    /\ start_call' = "listening"
    /\ UNCHANGED <<channel_running, stop_call, late_forwards, inbound, notWhatsAppCore,
                   otherWhatsAppVars>>

\* websockets.connect raises: the except clause of start()
ConnectRaises ==
    /\ start_call = "connecting"
    /\ _connected' = FALSE
    /\ _ws' = None
    /\ start_call' = AfterError(channel_running)
    /\ UNCHANGED <<channel_running, stop_call, bridge, late_forwards, inbound,
                   notWhatsAppCore, otherWhatsAppVars>>

\* The websocket yields a message and _handle_bridge_message handles it.
BridgeSends(data) ==
    /\ start_call = "listening"
    /\ bridge.open
    /\ Len(inbound) < MaxBridgeMessages
    /\ IF data.json /\ data.type = "message"
       THEN /\ inbound' = IF is_allowed(allow_from, BeforeAt(data.sender))
                          THEN publish_inbound(inbound, BridgeInbound(data))
                          ELSE inbound
            /\ late_forwards' = IF stop_call = "returned" /\ inbound' # inbound
                                THEN late_forwards + 1 ELSE late_forwards
            /\ UNCHANGED _connected
       ELSE /\ _connected' = IF data.json /\ data.type = "status"
                             THEN CASE data.status = "connected" -> TRUE
                                    [] data.status = "disconnected" -> FALSE
                                    [] OTHER -> _connected
                             ELSE _connected
            /\ UNCHANGED <<inbound, late_forwards>>
    /\ UNCHANGED <<channel_running, _ws, start_call, stop_call, bridge, notWhatsAppCore,
                   otherWhatsAppVars>>

\* The websocket closes: the bridge closes it, normally or not, or the close()
\* that stop() awaits has done its handshake.
WebsocketCloses(how) ==
    /\ bridge.open
    /\ stop_call = "closing" => how = "ok"
    /\ bridge' = [open |-> FALSE, closed |-> how]
    /\ UNCHANGED <<channel_running, _connected, _ws, start_call, stop_call, late_forwards,
                   inbound, notWhatsAppCore, otherWhatsAppVars>>

\* "async for message in ws" ends: normally, and start() is back at the top of
\* its loop, or with ConnectionClosedError, and start() is in its except clause.
ListenEnds ==
    /\ start_call = "listening"
    /\ ~bridge.open
    /\ IF bridge.closed = "ok"
       THEN /\ start_call' = WhileRunningLoop(channel_running)
            /\ UNCHANGED <<_connected, _ws>>
       ELSE /\ _connected' = FALSE
            /\ _ws' = None
            /\ start_call' = AfterError(channel_running)
    /\ UNCHANGED <<channel_running, stop_call, bridge, late_forwards, inbound,
                   notWhatsAppCore, otherWhatsAppVars>>

\* asyncio.sleep(5) returns and start() is back at the top of its loop.
ReconnectWaitEnds ==
    /\ start_call = "sleeping"
    /\ start_call' = WhileRunningLoop(channel_running)
    /\ UNCHANGED <<channel_running, _connected, _ws, stop_call, bridge, late_forwards,
                   inbound, notWhatsAppCore, otherWhatsAppVars>>

\* stop() up to "await self._ws.close()", or to its end when there is no _ws
WhatsAppStop ==
    /\ stop_call # "closing"
    /\ channel_running' = FALSE
    /\ _connected' = FALSE
    /\ stop_call' = IF _ws # None THEN "closing" ELSE "returned"
    /\ UNCHANGED <<_ws, start_call, bridge, late_forwards, inbound, notWhatsAppCore,
                   otherWhatsAppVars>>

\* close() returns once the websocket is closed: self._ws = None
CloseReturns ==
    /\ stop_call = "closing"
    /\ ~bridge.open
    /\ _ws' = None
    /\ stop_call' = "returned"
    /\ UNCHANGED <<channel_running, _connected, start_call, bridge, late_forwards, inbound,
                   notWhatsAppCore, otherWhatsAppVars>>

WhatsAppNext ==
    \/ WhatsAppStart
    \/ ConnectReturns
    \/ ConnectRaises
    \/ \E data \in BridgeMessages : BridgeSends(data)
    \/ \E how \in {"ok", "error"} : WebsocketCloses(how)
    \/ ListenEnds
    \/ ReconnectWaitEnds
    \/ WhatsAppStop
    \/ CloseReturns

(***************************************************************************)
(* Session keys (bus/events.py, utils/helpers.py): a key is built from a   *)
(* channel and a chat id and parse_call back.  The strings are written as the  *)
(* sequences of their characters.                                          *)
(***************************************************************************)
\* The most characters of a channel name and of a chat id.
MaxIdLen == 3

\* The channel names and the chat ids: a letter and the colon.
IdStrings == UNION {[1..n -> {"a", ":"}] : n \in 0..MaxIdLen}

\* str up to its first sep, or all of it
RECURSIVE Until(_, _)
Until(str, sep) ==
    IF str = <<>> \/ Head(str) = sep THEN <<>>
    ELSE <<Head(str)>> \o Until(Tail(str), sep)

\* InboundMessage.session_key: f"{self.channel}:{self.chat_id}"
session_key(channel, chat_id) == channel \o <<":">> \o chat_id

\* A parser that splits at every colon and returns the first two parts.
parse_session_key_SplitAll(key) ==
    LET first == Until(key, ":")
        rest == SubSeq(key, Len(first) + 2, Len(key))
    IN IF Len(first) < Len(key) THEN <<first, Until(rest, ":")>> ELSE <<key, <<>>>>

\* parse_session_key: parts = key.split(":", 1)
parse_session_key(key) ==
    LET first == Until(key, ":")
        parts == IF Len(first) < Len(key)
                 THEN <<first, SubSeq(key, Len(first) + 2, Len(key))>>
                 ELSE <<key>>
    IN IF Len(parts) = 2 THEN <<parts[1], parts[2]>> ELSE <<key, <<>>>>

\* No call of parse_session_key yet.
NoParse == [called |-> FALSE, key |-> <<>>, returned |-> <<>>]

\* A message of channel and chat_id, and no key parse_call.
ParseKeyInit(channel, chat_id) ==
    /\ key_of = [channel |-> channel, chat_id |-> chat_id]
    /\ parse_call = NoParse

\* parse_session_key(msg.session_key)
ParseSessionKey ==
    /\ LET key == session_key(key_of.channel, key_of.chat_id)
       IN parse_call' = [called |-> TRUE, key |-> key, returned |-> parse_session_key(key)]
    /\ UNCHANGED <<key_of, coreVars, otherParseKeyVars>>

\* parse_session_key(key) for a key that was not built from a channel and a
\* chat id
ParseOtherKey(key) ==
    /\ parse_call' = [called |-> TRUE, key |-> key, returned |-> parse_session_key(key)]
    /\ UNCHANGED <<key_of, coreVars, otherParseKeyVars>>

ParseKeyNext ==
    \/ ParseSessionKey
    \/ \E key \in IdStrings : ParseOtherKey(key)

(***************************************************************************)
(* Specifications.                                                         *)
(***************************************************************************)
NoTasks == [k \in {} |-> 0]

RegistryInit ==
    /\ _tools = NoTools
    /\ last = NoCall
    /\ registered = NoRegistration

SubagentInit ==
    /\ nspawned = 0
    /\ _running_tasks = NoTasks
    /\ sub = [i \in Spawns |-> NoSub]
    /\ inbound = <<>>
    /\ spawn_calls = <<>>

\* ChannelManager.__init__, and the two empty queues of the bus
BusInit ==
    /\ outbound = <<>>
    /\ npublished = 0
    /\ _dispatch_task = NoTask
    /\ dispatched = <<>>
    /\ consumed = <<>>

\* HeartbeatService.__init__ with the arguments enabled and on_heartbeat
HeartbeatInit(enabledArg, callbackArg) ==
    /\ enabled = enabledArg
    /\ on_heartbeat = callbackArg
    /\ _running = FALSE
    /\ _task = 0
    /\ loops = [id \in LoopIds |-> NoLoop]
    /\ last_tick = NoTick

ClassifyInit(text) ==
    /\ content = text
    /\ classified = [done |-> FALSE, empty |-> FALSE]

CronInit ==
    /\ jobs = NoJobs
    /\ now_ms = 0
    /\ last_op = NoOp
    /\ added = NoJobs
    /\ _timer_task = "armed"

\* A channel configured with allow_list
ChannelInit(allow_list) ==
    /\ allow_from = allow_list
    /\ handled = NoHandled

\* LiteLLMProvider.__init__
ProviderInit(config) ==
    /\ provider = config
    /\ chat_call = NoChat

SessionInit ==
    /\ session = NoSession
    /\ session_op = NoSessionOp

TranscriptInit ==
    /\ run = NoRun
    /\ messages = <<>>
    /\ chat_log = <<>>

\* The components at the edge of the gateway after construction.
EdgeInit ==
    /\ SpawnToolInit
    /\ BackendInit
    /\ FeishuInit
    /\ GatewayInit
    /\ StoreInit(<<"a", ":", "a">>, <<"a", "_", "a">>)
    /\ WhatsAppInit
    /\ ParseKeyInit(<<"a">>, <<"a">>)

\* A Feishu channel that has been started and has seen messages before.
InitFeishu ==
    /\ RegistryInit
    /\ SubagentInit
    /\ BusInit
    /\ HeartbeatInit(TRUE, "on_heartbeat")
    /\ ClassifyInit(PyNone)
    /\ CronInit
    /\ ChannelInit({})
    /\ ProviderInit([api_key |-> None, api_base |-> None])
    /\ SessionInit
    /\ TranscriptInit
    /\ SpawnToolInit
    /\ BackendInit
    /\ FeishuStarted
    /\ GatewayInit
    /\ StoreInit(<<"a", ":", "a">>, <<"a", "_", "a">>)
    /\ WhatsAppInit
    /\ ParseKeyInit(<<"a">>, <<"a">>)

\* A session manager and any two different keys.
InitStore ==
    /\ RegistryInit
    /\ SubagentInit
    /\ BusInit
    /\ HeartbeatInit(TRUE, "on_heartbeat")
    /\ ClassifyInit(PyNone)
    /\ CronInit
    /\ ChannelInit({})
    /\ ProviderInit([api_key |-> None, api_base |-> None])
    /\ SessionInit
    /\ TranscriptInit
    /\ SpawnToolInit
    /\ BackendInit
    /\ FeishuInit
    /\ GatewayInit
    /\ \E k1 \in SessionKeys : \E k2 \in SessionKeys \ {k1} : StoreInit(k1, k2)
    /\ WhatsAppInit
    /\ ParseKeyInit(<<"a">>, <<"a">>)

\* Any channel and any chat id.
InitParseKey ==
    /\ RegistryInit
    /\ SubagentInit
    /\ BusInit
    /\ HeartbeatInit(TRUE, "on_heartbeat")
    /\ ClassifyInit(PyNone)
    /\ CronInit
    /\ ChannelInit({})
    /\ ProviderInit([api_key |-> None, api_base |-> None])
    /\ SessionInit
    /\ TranscriptInit
    /\ SpawnToolInit
    /\ BackendInit
    /\ FeishuInit
    /\ GatewayInit
    /\ StoreInit(<<"a", ":", "a">>, <<"a", "_", "a">>)
    /\ WhatsAppInit
    /\ \E channel \in IdStrings, chat_id \in IdStrings : ParseKeyInit(channel, chat_id)

\* A channel without an allow-list, a provider without key and base, an
\* empty session and no subagent run.
AdapterInit ==
    /\ ChannelInit({})
    /\ ProviderInit([api_key |-> None, api_base |-> None])
    /\ SessionInit
    /\ TranscriptInit
    /\ EdgeInit

\* The gateway's construction: the heartbeat is enabled and has its callback.
Init ==
    /\ RegistryInit
    /\ SubagentInit
    /\ BusInit
    /\ HeartbeatInit(TRUE, "on_heartbeat")
    /\ ClassifyInit(PyNone)
    /\ CronInit
    /\ AdapterInit

\* A heartbeat service constructed with any arguments.
InitHeartbeat ==
    /\ RegistryInit
    /\ SubagentInit
    /\ BusInit
    /\ \E e \in BOOLEAN, cb \in {None, "on_heartbeat"} : HeartbeatInit(e, cb)
    /\ ClassifyInit(PyNone)
    /\ CronInit
    /\ AdapterInit

\* Any argument of _is_heartbeat_empty: None, or a text of up to MaxContentLen pieces.
InitClassify ==
    /\ RegistryInit
    /\ SubagentInit
    /\ BusInit
    /\ HeartbeatInit(TRUE, "on_heartbeat")
    /\ \E text \in {PyNone} \cup {Text(c) : c \in Contents} : ClassifyInit(text)
    /\ CronInit
    /\ AdapterInit

\* A channel with any of the allow-lists.
InitChannel ==
    /\ RegistryInit
    /\ SubagentInit
    /\ BusInit
    /\ HeartbeatInit(TRUE, "on_heartbeat")
    /\ ClassifyInit(PyNone)
    /\ CronInit
    /\ \E allow_list \in AllowLists : ChannelInit(allow_list)
    /\ ProviderInit([api_key |-> None, api_base |-> None])
    /\ SessionInit
    /\ TranscriptInit
    /\ EdgeInit

\* A provider with any of the configurations.
InitProvider ==
    /\ RegistryInit
    /\ SubagentInit
    /\ BusInit
    /\ HeartbeatInit(TRUE, "on_heartbeat")
    /\ ClassifyInit(PyNone)
    /\ CronInit
    /\ ChannelInit({})
    /\ \E config \in ProviderConfigs : ProviderInit(config)
    /\ SessionInit
    /\ TranscriptInit
    /\ EdgeInit

RegistryNext ==
    \/ \E tool \in ToolObjects : Register(tool)
    \/ \E name \in ToolNames : Unregister(name)
    \/ \E name \in ToolNames, params \in ParamValues, outcome \in ToolOutcomes :
          Execute(name, params, outcome)

SubagentNext ==
    \/ \E input \in SpawnInputs, task_id \in TaskIds :
          Spawn(input.task, input.label, input.origin, task_id)
    \/ \E i \in Spawns : StartStep(i)
    \/ \E i \in Spawns, response \in Responses : ChatReturns(i, response)
    \/ \E i \in Spawns : ToolReturns(i)
    \/ \E i \in Spawns : DoneCallback(i)

\* The tool registry alone.
SpecRegistry == Init /\ [][RegistryNext]_vars

\* The subagent manager alone.
SpecSubagent == Init /\ [][SubagentNext]_vars

\* The subagent manager when the event loop runs every ready coroutine and
\* callback, and every backend call and tool execution returns.
SpecSubagentLive == SpecSubagent /\ \A i \in Spawns : WF_vars(SubagentStep(i))

\* The message bus and the outbound dispatcher alone.
SpecBus == Init /\ [][BusNext]_vars

\* The heartbeat service alone.
SpecHeartbeat == InitHeartbeat /\ [][HeartbeatNext]_vars

\* The heartbeat service when the event loop runs every ready task, every sleep
\* ends and every call of the callback ends.
SpecHeartbeatLive == SpecHeartbeat /\ \A id \in LoopIds : WF_vars(LoopStep(id))

\* _is_heartbeat_empty applied to one argument.
SpecClassify == InitClassify /\ [][ClassifyNext]_vars

\* The cron service alone.
SpecCron == Init /\ [][CronNext]_vars

\* The spawn tool with the subagents it spawns.
SpecSpawnTool == Init /\ [][SpawnToolNext]_vars

\* The subagent manager with a LiteLLMProvider as its backend.
SpecBackend == Init /\ [][BackendNext]_vars

\* The outbound dispatcher alone.
SpecDispatcher == Init /\ [][DispatcherNext]_vars

\* The outbound dispatcher when the event loop runs every scheduled task and
\* every send ends.
SpecDispatcherLive == SpecDispatcher /\ WF_vars(DispatcherStep)

\* The allow-list gate of one channel.
SpecChannel == InitChannel /\ [][ChannelNext]_vars

\* The calls of chat on one provider.
SpecProvider == InitProvider /\ [][ProviderNext]_vars

\* The operations on one session.
SpecSession == Init /\ [][SessionNext]_vars

\* One subagent run and its transcript.
SpecTranscript == Init /\ [][TranscriptNext]_vars

\* The Feishu channel and the events it receives.
SpecFeishu == InitFeishu /\ [][FeishuNext]_vars

\* The gateway's cron callback and the jobs that fire.
SpecGateway == Init /\ [][GatewayNext]_vars

\* A session manager and two sessions of different keys.
SpecStore == InitStore /\ [][StoreNext]_vars

\* The WhatsApp channel, its bridge and the calls of start() and stop().
SpecWhatsApp == Init /\ [][WhatsAppNext]_vars

\* parse_session_key applied to the keys of messages and to other keys.
SpecParseKey == InitParseKey /\ [][ParseKeyNext]_vars

(***************************************************************************)
(* What a parameter schema asks of a value: the JSON type it names (a      *)
(* boolean is no integer and no number), membership in enum, minimum and   *)
(* maximum of a number, minLength and maxLength of a string, the required  *)
(* keys and the properties of an object, the items of an array.            *)
(***************************************************************************)
JsonTypes ==
    [string |-> {"str"}, integer |-> {"int"}, number |-> {"int", "float"},
     boolean |-> {"bool"}, array |-> {"list"}, object |-> {"dict"}]

JsonEq(a, b) ==
    IF a.t \in {"int", "float"} /\ b.t \in {"int", "float"} THEN NumX2(a) = NumX2(b)
    ELSE a.t = b.t /\ a.v = b.v

RECURSIVE Satisfies(_, _)
Satisfies(val, schema) ==
    /\ Has(schema, "type") /\ schema.type \in DOMAIN JsonTypes
          => val.t \in JsonTypes[schema.type]
    /\ Has(schema, "enum") => \E i \in 1..Len(schema.enum) : JsonEq(val, schema.enum[i])
    /\ Has(schema, "minimum") /\ val.t \in {"int", "float"}
          => NumX2(val) >= 2 * schema.minimum
    /\ Has(schema, "maximum") /\ val.t \in {"int", "float"}
          => NumX2(val) =< 2 * schema.maximum
    /\ Has(schema, "minLength") /\ val.t = "str" => Len(val.v) >= schema.minLength
    /\ Has(schema, "maxLength") /\ val.t = "str" => Len(val.v) =< schema.maxLength
    /\ Has(schema, "required") /\ val.t = "dict"
          => \A i \in 1..Len(schema.required) : schema.required[i] \in DOMAIN val.v
    /\ Has(schema, "properties") /\ val.t = "dict"
          => \A k \in DOMAIN val.v \cap DOMAIN schema.properties :
                Satisfies(val.v[k], schema.properties[k])
    /\ Has(schema, "items") /\ val.t = "list"
          => \A i \in 1..Len(val.v) : Satisfies(val.v[i], schema.items)

\* The last call of ToolRegistry.execute named a registered tool, and its
\* arguments satisfy (or violate) that tool's schema.
LastCallValid ==
    last.tool # "" /\ Satisfies(last.params, WithObjectType(ToolSchema(last.tool)))
LastCallInvalid ==
    last.tool # "" /\ ~Satisfies(last.params, WithObjectType(ToolSchema(last.tool)))

\* A text that starts with the error marker.
IsErrorText(text) == text # <<>> /\ Head(text) = "Error: "

\* C1: whenever ToolRegistry.execute is called for a registered tool with
\* arguments that violate the tool's schema, the result is an error text and the
\* tool's own execute is not invoked.
C1_InvalidNeverExecuted ==
    LastCallInvalid => last.invocations = 0 /\ IsErrorText(last.result)

\* C2: whenever ToolRegistry.execute is called for a registered tool with
\* arguments that satisfy the tool's schema, the tool's own execute is invoked
\* exactly once, and what it returns is the result, unmodified.
C2_ValidExecutedOnce ==
    LastCallValid =>
        /\ last.invocations = 1
        /\ last.outcome.kind = "return" => last.result = last.outcome.text

C2_Witness ==
    /\ LastCallValid
    /\ last.tool = "SampleTool"
    /\ last.outcome.kind = "return"
    /\ last.result = <<"done">>


(***************************************************************************)
(* The subagent manager's properties.                                      *)
(***************************************************************************)
\* The positions in the inbound queue of the messages spawn i's coroutine published.
AnnouncementsOf(i) == {k \in 1..Len(inbound) : inbound[k].spawn = i}

\* The status text and the result inside an announcement.
StatusTextOf(msg) == msg.content[4]
ResultOf(msg) == SubSeq(msg.content, 9, Len(msg.content) - 1)

\* The address spawn i was called with, as a chat id.
OriginKey(i) == <<spawn_calls[i].origin_channel, ":", spawn_calls[i].origin_chat_id>>

RunEnded(i) == sub[i].pc \in {"finished", "removed"}

\* No spawn has more than one announcement, and every announcement is one of
\* a spawn that happened, on channel "system", addressed to that spawn's origin.
AnnouncementsWellFormed ==
    \A i \in Spawns :
        /\ Cardinality(AnnouncementsOf(i)) =< 1
        /\ \A k \in AnnouncementsOf(i) :
              /\ i =< nspawned
              /\ inbound[k].channel = "system"
              /\ inbound[k].chat_id = OriginKey(i)
        /\ RunEnded(i) => Cardinality(AnnouncementsOf(i)) = 1

\* C3: every spawn, however its loop ends, leads to exactly one inbound message
\* on channel "system" whose chat id is "<origin_channel>:<origin_chat_id>" of
\* that spawn; so N spawns give N announcements, each to its own origin.
C3_EverySpawnAnnouncedOnce ==
    /\ []AnnouncementsWellFormed
    /\ \A i \in Spawns : (i =< nspawned) ~> (Cardinality(AnnouncementsOf(i)) = 1)

C3_Witness ==
    /\ nspawned = 2
    /\ Len(inbound) = 2
    /\ inbound[1].spawn = 2 /\ inbound[2].spawn = 1
    /\ inbound[1].chat_id # inbound[2].chat_id
    /\ sub[1].status = "error" /\ sub[2].ceiling

\* C4: get_running_count() is the number of subagents spawned and not yet
\* completed (a completion being over once its done callback has run).
C4_RunningCountIsLiveSpawns ==
    get_running_count = Cardinality({i \in 1..nspawned : sub[i].pc # "removed"})

\* C5: the task ids of any N spawns are pairwise distinct, so that while all
\* N subagents are running the live map holds N entries.
C5_TaskIdsDistinct ==
    /\ \A i, j \in 1..nspawned : i # j => sub[i].task_id # sub[j].task_id
    /\ (\A i \in 1..nspawned : ~RunEnded(i)) => get_running_count = nspawned

\* C6: a subagent loop calls the completion backend at most 15 times, and
\* every subagent that is spawned comes to its end.
C6_AtMostFifteenCalls ==
    /\ [](\A i \in Spawns : sub[i].chat_calls =< 15 /\ sub[i].iteration =< 15)
    /\ \A i \in Spawns : (i =< nspawned) ~> RunEnded(i)

C6_Witness == \E i \in Spawns : sub[i].pc = "await_chat" /\ sub[i].chat_calls = 15

\* C7: a subagent whose loop ran out of iterations (all 15 responses carried
\* tool calls) has the canned text as its result and is announced with the
\* success status.
C7_CeilingGivesCannedOk ==
    \A i \in Spawns :
        sub[i].ceiling =>
            /\ sub[i].status = "ok"
            /\ sub[i].result = CannedResult
            /\ \A k \in AnnouncementsOf(i) :
                  /\ StatusTextOf(inbound[k]) = "completed successfully"
                  /\ ResultOf(inbound[k]) = CannedResult

C7_Witness == \E i \in Spawns : sub[i].ceiling /\ sub[i].pc = "finished"

\* What holds of a subagent in whose loop an exception was raised: it has ended,
\* its result is the error text made of the exception's message, and its
\* announcement carries the failure status and that result.
ExceptionEndsRun ==
    \A i \in Spawns :
        sub[i].raised # NoText =>
            /\ RunEnded(i)
            /\ sub[i].status = "error"
            /\ sub[i].result = <<"Error: ">> \o sub[i].raised
            /\ \A k \in AnnouncementsOf(i) :
                  /\ StatusTextOf(inbound[k]) = "failed"
                  /\ ResultOf(inbound[k]) = <<"Error: ">> \o sub[i].raised

\* A step in which an exception is raised in subagent i changes nothing of the
\* other subagents nor of the spawner, and a subagent that has ended makes no
\* further backend call or tool execution.
ExceptionStaysLocal ==
    \A i \in Spawns :
        /\ sub[i].raised = NoText /\ sub'[i].raised # NoText =>
              /\ \A j \in Spawns \ {i} : sub'[j] = sub[j]
              /\ nspawned' = nspawned /\ spawn_calls' = spawn_calls
              /\ _running_tasks' = _running_tasks
        /\ RunEnded(i) =>
              /\ sub'[i].pc \in {"finished", "removed"}
              /\ sub'[i].chat_calls = sub[i].chat_calls
              /\ sub'[i].pending = <<>>

\* C8: an exception raised inside a subagent loop stops the loop at once, its
\* message (behind the error marker) becomes the result, the announcement
\* carries the failure status, and neither the spawner nor another subagent
\* is affected.
C8_ExceptionFailsOnlyItsRun == []ExceptionEndsRun /\ [][ExceptionStaysLocal]_vars

C8_Witness ==
    /\ sub[1].raised = <<"connection reset">> /\ sub[1].pc = "finished"
    /\ sub[2].pc = "await_tool" /\ sub[2].iteration = 3

\* The names of the restricted tool set.
RestrictedToolNames ==
    {"read_file", "write_file", "list_dir", "exec", "web_search", "web_fetch"}

\* C9: the registry of a subagent holds only the restricted tools, never the
\* spawn tool nor the message tool, so that a tool call naming either of them
\* invokes nothing.
C9_SubagentToolsRestricted ==
    \A i \in Spawns :
        LET names == DOMAIN sub[i].tools
        IN /\ names \subseteq RestrictedToolNames
           /\ SpawnToolName \notin names /\ MessageToolName \notin names
           /\ sub[i].pc \in {"await_chat", "await_tool"} => names = RestrictedToolNames
           /\ \A call \in {ToolCallSpawn, [ToolCallSpawn EXCEPT !.name = MessageToolName]},
                 outcome \in ToolOutcomes :
                 RegistryExecute(sub[i].tools, call.name, call.arguments, outcome).invocations = 0

C9_Witness ==
    \E i \in Spawns :
        /\ sub[i].pc = "await_tool"
        /\ Head(sub[i].pending).name = SpawnToolName
        /\ DOMAIN sub[i].tools = RestrictedToolNames

\* A call of spawn returns its status text in the same step, in which the new
\* subagent's coroutine has not run yet and nothing else has moved.
SpawnDoesNotWait ==
    nspawned' # nspawned =>
        LET i == nspawned'
        IN /\ i = nspawned + 1
           /\ Len(spawn_calls') = i
           /\ spawn_calls'[i].returned =
                 SpawnStatus(sub'[i].label, sub'[i].task_id)
           /\ sub'[i].pc = "created"
           /\ sub'[i].chat_calls = 0
           /\ inbound' = inbound
           /\ \A j \in Spawns \ {i} : sub'[j] = sub[j]

\* C10: spawn returns its status text without waiting for the subagent: it
\* has returned before the subagent makes any progress, whatever the
\* subagents already running do.
C10_SpawnReturnsAtOnce == [][SpawnDoesNotWait]_vars /\ [](Len(spawn_calls) = nspawned)

C10_Witness ==
    /\ nspawned = 2 /\ Len(spawn_calls) = 2
    /\ sub[1].pc = "await_chat" /\ sub[1].iteration = 15
    /\ sub[2].pc = "created"

(***************************************************************************)
(* The registry's error handling and its map of names.                     *)
(***************************************************************************)
\* The text holds the token.
Mentions(text, token) == \E k \in 1..Len(text) : text[k] = token

C12_ToolExceptionBecomesText ==
    [][last' # last /\ last'.invocations = 1 /\ last'.outcome.kind = "raise" =>
          /\ ~last'.raised
          /\ last'.result = <<"executing ", last'.name, " failed: ">> \o last'.outcome.text
          /\ _tools' = _tools]_vars

C12_Witness ==
    /\ last.tool = "SampleTool"
    /\ last.outcome.kind = "raise"
    /\ last.result = <<"executing ", "sample", " failed: ", "boom">>

\* The constraints of the schema that val violates, each with the path of the
\* value that violates it.  A value of the wrong type violates the type alone.
RECURSIVE Violations(_, _, _)
Violations(val, schema, path) ==
    IF Has(schema, "type") /\ schema.type \in DOMAIN JsonTypes
          /\ val.t \notin JsonTypes[schema.type]
    THEN {<<path, "type">>}
    ELSE
      (IF Has(schema, "enum") /\ ~(\E i \in 1..Len(schema.enum) : JsonEq(val, schema.enum[i]))
       THEN {<<path, "enum">>} ELSE {})
      \cup (IF Has(schema, "minimum") /\ val.t \in {"int", "float"}
               /\ NumX2(val) < 2 * schema.minimum
            THEN {<<path, "minimum">>} ELSE {})
      \cup (IF Has(schema, "maximum") /\ val.t \in {"int", "float"}
               /\ NumX2(val) > 2 * schema.maximum
            THEN {<<path, "maximum">>} ELSE {})
      \cup (IF Has(schema, "minLength") /\ val.t = "str" /\ Len(val.v) < schema.minLength
            THEN {<<path, "minLength">>} ELSE {})
      \cup (IF Has(schema, "maxLength") /\ val.t = "str" /\ Len(val.v) > schema.maxLength
            THEN {<<path, "maxLength">>} ELSE {})
      \cup (IF Has(schema, "required") /\ val.t = "dict"
            THEN {<<ChildPath(path, schema.required[i]), "required">> :
                     i \in {j \in 1..Len(schema.required) :
                               schema.required[j] \notin DOMAIN val.v}}
            ELSE {})
      \cup (IF Has(schema, "properties") /\ val.t = "dict"
            THEN UNION {Violations(val.v[k], schema.properties[k], ChildPath(path, k)) :
                           k \in DOMAIN val.v \cap DOMAIN schema.properties}
            ELSE {})
      \cup (IF Has(schema, "items") /\ val.t = "list"
            THEN UNION {Violations(val.v[i], schema.items, ItemPath(path, i)) :
                           i \in 1..Len(val.v)}
            ELSE {})

\* What the arguments of the last call violate in the schema of the tool called.
LastCallViolations ==
    IF last.tool = "" THEN {}
    ELSE Violations(last.params, WithObjectType(ToolSchema(last.tool)), "")

\* The entries of the validation error text of the last call: the text has
\* three tokens in front of the entries and a separator between two entries.
LastCallEntries ==
    IF last.invocations > 0 \/ ~IsErrorText(last.result) THEN 0
    ELSE (Len(last.result) - 3) \div 2

\* C13: whenever the arguments of a call of ToolRegistry.execute violate the
\* tool's schema in several places, the error text returned has one entry for
\* each violated constraint.
C13_EveryViolationListed ==
    Cardinality(LastCallViolations) >= 2 =>
        LastCallEntries = Cardinality(LastCallViolations)

\* C14: every name of the registry maps to the one tool that carries this name,
\* and every call of register makes the tool's name map to the tool, leaves
\* the other names alone and, when the name was registered before, leaves the
\* number of entries as it was.
C14_NamesUniqueLastWriteWins ==
    /\ [](\A n \in DOMAIN _tools : ToolName(_tools[n]) = n)
    /\ [][registered' # NoRegistration =>
             LET name == ToolName(registered'.tool)
             IN /\ Get(_tools', name) = registered'.tool
                /\ \A n \in DOMAIN _tools \ {name} : Get(_tools', n) = _tools[n]
                /\ DOMAIN _tools' = DOMAIN _tools \cup {name}
                /\ name \in DOMAIN _tools => RegistryLen(_tools') = RegistryLen(_tools)]_vars

C14_Witness ==
    /\ registered.tool = "ReplacementTool"
    /\ registered.prior = "SampleTool"
    /\ registered.size = 2
    /\ RegistryLen(_tools) = 2
    /\ Get(_tools, "sample") = "ReplacementTool"


(***************************************************************************)
(* The bus's properties.                                                   *)
(***************************************************************************)
\* C15: the outbound messages are taken by the dispatcher, and so handed to
\* the channels' send, in the order of their publication, a message is taken
\* only when the send of the one before has ended, and the inbound messages
\* are consumed in the order of their publication.
C15_DeliveredInPublishOrder ==
    /\ \A k \in 1..Len(dispatched) : dispatched[k].msg.seq = k
    /\ \A k \in 1..Len(outbound) : outbound[k].seq = Len(dispatched) + k
    /\ \A k \in 1..(Len(dispatched) - 1) : dispatched[k].state # "sending"
    /\ \A k \in 1..Len(consumed) : consumed[k].seq = k
    /\ \A k \in 1..Len(inbound) : inbound[k].seq = Len(consumed) + k

C15_Witness ==
    /\ Len(dispatched) = 3
    /\ dispatched[1].state = "failed"
    /\ dispatched[2].state = "unknown"
    /\ dispatched[3].state = "sent"
    /\ dispatched[1].msg.channel # dispatched[3].msg.channel
    /\ Len(consumed) = 2
    /\ Len(inbound) = 1


(***************************************************************************)
(* The heartbeat's properties.                                             *)
(***************************************************************************)
\* The checkbox placeholders.
CheckboxPlaceholders == {"- [ ]", "* [ ]", "- [x]", "* [x]"}

\* Reading a text piece by piece.  At the start of a line white space is passed
\* over; "#" or "<!--" there makes the line a heading or a comment, whose rest
\* does not count; a placeholder there may be followed by white space only;
\* anything else makes the text actionable.
ScanStep(state, piece) ==
    CASE state = "actionable" -> "actionable"
      [] piece = NL -> "line start"
      [] state = "skipped" -> "skipped"
      [] piece = SP -> state
      [] state = "line start" /\ piece \in {"#", "<!--"} -> "skipped"
      [] state = "line start" /\ piece \in CheckboxPlaceholders -> "placeholder"
      [] OTHER -> "actionable"

RECURSIVE Scan(_, _)
Scan(text, state) ==
    IF text = <<>> THEN state ELSE Scan(Tail(text), ScanStep(state, Head(text)))

\* The text has a line that is not blank, no heading, no comment and no placeholder.
Actionable(text) == Scan(text, "line start") = "actionable"

\* C16: _is_heartbeat_empty says empty for None, for the empty text and for a
\* text of blank lines, heading lines, HTML-comment lines and checkbox
\* placeholder lines only, and says not empty for every text that has another line.
C16_EmptinessClassification ==
    classified.done =>
        (classified.empty <=> (content.t = "NoneType" \/ ~Actionable(content.v)))

C16_Witness ==
    /\ classified.done
    /\ classified.empty
    /\ content = Text(<<"#", NL, SP, "* [x]">>)

\* C17: a tick calls the callback once, with the fixed prompt, when
\* HEARTBEAT.md can be read and its text is actionable (and a callback is
\* registered), and does not call it otherwise.
C17_CallbackOnlyWhenActionable ==
    last_tick.ran =>
        LET file == last_tick.file
            actionable == file.kind = "text" /\ Actionable(file.text)
        IN /\ last_tick.invoked = (IF actionable /\ on_heartbeat # None THEN 1 ELSE 0)
           /\ last_tick.invoked = 1 => last_tick.prompt = HEARTBEAT_PROMPT

C17_Witness ==
    /\ last_tick.ran
    /\ last_tick.file.text = <<"- [ ]", SP, "t">>
    /\ last_tick.invoked = 1

\* C18: when a tick of a timer loop has failed, the loop's next tick follows,
\* unless stop() ends the loop.
C18_FailedTickDoesNotStopTimer ==
    \A id \in LoopIds : \A k \in 1..(MaxTicks - 1) :
        (loops[id].ticks = k /\ loops[id].failed)
            ~> (loops[id].ticks > k \/ loops[id].stopped_in # "")

C18_Witness ==
    \E id \in LoopIds :
        loops[id].ticks = 1 /\ loops[id].failed /\ loops[id].pc = "woken" /\ _running

\* C19: the timer loop that stop() cancels has ended, wherever it stood, and
\* so has a loop that found the service stopped; neither calls the callback
\* again, and no timer loop calls the callback while the service is stopped.
C19_StoppedTimerNeverCalls ==
    /\ [](\A id \in LoopIds : loops[id].stopped_in # "" => loops[id].pc = "done")
    /\ [][\A id \in LoopIds :
             loops'[id].pc = "callback" /\ loops[id].pc # "callback" =>
                 _running /\ loops[id].stopped_in = ""]_vars

C19_Witness ==
    /\ ~_running
    /\ \E id \in LoopIds :
          loops[id].stopped_in = "woken" /\ loops[id].pc = "done" /\ loops[id].ticks = 1


(***************************************************************************)
(* The cron service's properties.                                          *)
(***************************************************************************)
\* C20: right after add_job, the next run of a job of kind 'every' is its
\* creation time plus its period, and right after the job has fired at T, by
\* the timer or by run_job(force=True), its next run is T plus its period.
C20_EveryRearmsFromFire ==
    last_op.op \in {"add_job", "timer", "run_job"} /\ last_op.id \in DOMAIN jobs =>
        LET job == jobs[last_op.id]
        IN job.schedule.kind = "every" =>
              /\ job.state.next_run_at_ms = now_ms + job.schedule.every_ms
              /\ last_op.op = "add_job" => job.created_at_ms = now_ms
              /\ last_op.op \in {"timer", "run_job"} => job.state.last_run_at_ms = now_ms

C20_Witness ==
    /\ last_op.op = "timer"
    /\ last_op.id \in DOMAIN jobs
    /\ now_ms = 3
    /\ jobs[last_op.id].created_at_ms = 0
    /\ jobs[last_op.id].schedule.every_ms = 2
    /\ jobs[last_op.id].state.next_run_at_ms = 5

\* C21: the timer fires a job of kind 'at' at most once, whatever is done to
\* the job afterwards; and once a job of kind 'at' flagged delete_after_run
\* has fired, it is in no result of list_jobs.
C21_AtFiresOnce ==
    \A id \in DOMAIN added :
        added[id].kind = "at" =>
            /\ added[id].timer <= 1
            /\ added[id].fired /\ added[id].delete_after_run =>
                  id \notin list_jobs(TRUE) \cup list_jobs(FALSE)

\* One job of kind 'at' was deleted by its firing; the other one was fired by
\* the timer, enabled again, and time has passed since.
C21_Witness ==
    \E a, b \in DOMAIN added :
        /\ added[a].kind = "at" /\ added[a].delete_after_run /\ added[a].fired
        /\ a \notin DOMAIN jobs
        /\ added[b].kind = "at" /\ added[b].timer = 1
        /\ b \in list_jobs(FALSE)
        /\ now_ms > jobs[b].state.last_run_at_ms

\* C22: run_job(id, force=True) on a disabled job invokes the callback, sets
\* last_run_at and last_status, re-arms a job of kind 'every' one period after
\* the run, and leaves the job disabled.
C22_ForcedRunOfDisabledJob ==
    last_op.op = "run_job" /\ ~last_op.enabled =>
        /\ last_op.outcome # ""
        /\ last_op.id \in DOMAIN jobs =>
              LET job == jobs[last_op.id]
              IN /\ ~job.enabled
                 /\ job.state.last_run_at_ms = now_ms
                 /\ job.state.last_status = (IF last_op.outcome = "ok" THEN "ok" ELSE "error")
                 /\ job.schedule.kind = "every" =>
                       job.state.next_run_at_ms = now_ms + job.schedule.every_ms

C22_Witness ==
    /\ last_op.op = "run_job"
    /\ ~last_op.enabled
    /\ last_op.id \in DOMAIN jobs
    /\ jobs[last_op.id].schedule.kind = "every"
    /\ jobs[last_op.id].state.last_status = "ok"
    /\ jobs[last_op.id].state.next_run_at_ms = 2 + jobs[last_op.id].schedule.every_ms
    /\ ~jobs[last_op.id].enabled

IsPart(sender_id, i, j) ==
    /\ i =< j
    /\ \A k \in i..j : sender_id[k] # "|"
    /\ i = 1 \/ sender_id[i - 1] = "|"
    /\ j = Len(sender_id) \/ sender_id[j + 1] = "|"

\* The sender id, or a '|'-separated part of it, is in the list.
Listed(allow_list, sender_id) ==
    \/ sender_id \in allow_list
    \/ \E i, j \in 1..Len(sender_id) :
          IsPart(sender_id, i, j) /\ SubSeq(sender_id, i, j) \in allow_list

\* C24: _handle_message publishes a message on the inbound queue exactly when
\* the allow-list is empty or holds the sender id or a '|'-separated part of
\* it: with a list that is not empty, no message of a sender that is not
\* listed is on the inbound queue, and with an empty list every message is
\* published.
C24_AllowListGate ==
    /\ \A k \in 1..Len(inbound) :
          allow_from = {} \/ Listed(allow_from, inbound[k].sender_id)
    /\ handled.called =>
          /\ handled.published <=>
                (allow_from = {} \/ Listed(allow_from, handled.sender_id))
          /\ handled.published =>
                /\ inbound # <<>>
                /\ inbound[Len(inbound)] =
                      InboundMessage("telegram", handled.sender_id, "chat", "hello")

\* A sender listed by a part of its id was published, and a sender with a
\* '|' whose parts are not listed was turned away after it.
C24_Witness ==
    /\ allow_from # {}
    /\ Len(inbound) = 1
    /\ inbound[1].sender_id \notin allow_from
    /\ handled.called /\ ~handled.published
    /\ \E k \in 1..Len(handled.sender_id) : handled.sender_id[k] = "|"

\* C25: when the completion call, or the parsing of what it returned, raises
\* an Exception, chat raises nothing: it returns a response whose content is
\* the error text, whose finish_reason is 'error' and which has no tool calls.
C25_ChatNeverRaises ==
    chat_call.called /\ chat_call.completion.kind \in {"Exception", "no choices"} =>
        /\ chat_call.response.raised = None
        /\ chat_call.response.content =
              <<"Error calling LLM: ">> \o chat_call.completion.content
        /\ chat_call.response.finish_reason = "error"
        /\ chat_call.response.tool_calls = <<>>

\* The completion call of a provider behind OpenRouter raised.
C25_Witness ==
    /\ chat_call.called
    /\ chat_call.completion.kind = "Exception"
    /\ chat_call.response.finish_reason = "error"
    /\ is_openrouter(provider)
    /\ chat_call.kwargs.model = <<"openrouter/", "zai/", "glm-4">>

\* C26: every operation on a session leaves its messages unchanged or appends
\* one message at the end.
C26_AppendOnly ==
    [][\/ session'.messages = session.messages
       \/ /\ Len(session'.messages) = Len(session.messages) + 1
          /\ SubSeq(session'.messages, 1, Len(session.messages)) = session.messages]_vars

\* The turns the transcript holds after the seed when the backend has
\* answered log: for each response with tool calls, the assistant turn and a
\* tool turn for each call, in the order of the calls.  A tool turn is
\* written here without its content.
RECURSIVE ExpectedTurns(_)
ExpectedTurns(log) ==
    IF log = <<>> THEN <<>>
    ELSE LET response == Head(log)
         IN (IF response.kind = "response" /\ response.tool_calls # <<>>
             THEN <<AssistantTurn(response)>>
                  \o [k \in 1..Len(response.tool_calls) |->
                         ToolTurn(response.tool_calls[k], <<>>)]
             ELSE <<>>)
            \o ExpectedTurns(Tail(log))

\* What the scoped registry returns for the call of a tool turn.
RegistryResults(turn) ==
    {RegistryExecute(run.tools, turn.name, call.arguments, outcome).result :
        call \in {c \in {ToolCallRead, ToolCallSpawn} : c.id = turn.tool_call_id},
        outcome \in ToolOutcomes}

\* C27: the transcript starts with the system prompt and the user task; after
\* them it holds, for each response with k tool calls, one assistant turn and
\* k tool turns in the order of the calls, each with what the scoped registry
\* returned, those of the last response as far as its calls are executed;
\* the backend is called only when no tool call is pending, and a response
\* without tool calls ends the run and appends nothing.
C27_TranscriptProtocol ==
    run.pc # "none" =>
        LET expected == ExpectedTurns(chat_log)
            done == Len(expected) - Len(run.pending)
        IN /\ Len(messages) = 2 + done
           /\ SubSeq(messages, 1, 2) = SeedTurns(run.task)
           /\ \A k \in 1..done :
                 /\ [messages[2 + k] EXCEPT !.content = <<>>]
                       = [expected[k] EXCEPT !.content = <<>>]
                 /\ messages[2 + k].role = "assistant" =>
                       messages[2 + k].content = expected[k].content
                 /\ messages[2 + k].role = "tool" =>
                       messages[2 + k].content \in RegistryResults(messages[2 + k])
           /\ run.pc = "await_chat" => run.pending = <<>>
           /\ run.pc = "await_tool" =>
                 /\ run.pending # <<>>
                 /\ Len(run.pending) =< Len(chat_log[Len(chat_log)].tool_calls)
           /\ run.pc = "finished" /\ chat_log # <<>> =>
                 ~has_tool_calls(chat_log[Len(chat_log)])

\* A response with two tool calls, then one with one, then a final text: the
\* transcript holds the seed, an assistant turn with its two tool turns, of
\* which the first says that the tool is not in the registry, and an
\* assistant turn with its tool turn.
C27_Witness ==
    /\ run.pc = "finished"
    /\ Len(chat_log) = 3
    /\ Len(messages) = 7
    /\ messages[3].role = "assistant"
    /\ messages[4].role = "tool" /\ messages[4].name = "spawn"
    /\ messages[4].content = <<"Error: ", "tool '", "spawn", "' not found">>
    /\ messages[5].role = "tool" /\ messages[5].name = "read_file"
    /\ messages[6].role = "assistant"
    /\ messages[7].role = "tool"

\* C28: at most one timer loop of a heartbeat service is active at any time.
C28_SingleTimer ==
    Cardinality({id \in LoopIds :
                    loops[id].pc \in {"created", "sleeping", "woken", "callback"}}) =< 1

\* The nth outbound message was handed to its channel's send, or dropped
\* because no such channel is enabled.
Handled(n) ==
    /\ Len(dispatched) >= n
    /\ dispatched[n].state \in {"sending", "sent", "failed", "unknown"}

\* C29: the dispatcher is ended by nothing but a cancellation, and while no
\* stop is requested every outbound message published is dispatched in the
\* end, whatever the channels and the sends of the messages before it were.
C29_DispatcherSurvives ==
    /\ [](_dispatch_task.pc \notin {"none", "wait_for", "sending"}
             => _dispatch_task.stopping /\ _dispatch_task.pc = "cancelled")
    /\ \A n \in 1..MaxMessages :
          (npublished >= n /\ _dispatch_task.pc # "none")
              ~> (Handled(n) \/ _dispatch_task.stopping)

\* After a message for a channel that is not enabled and a message whose send
\* raised, a third message was sent.
C29_Witness ==
    /\ Len(dispatched) = 3
    /\ dispatched[1].state = "unknown"
    /\ dispatched[2].state = "failed"
    /\ dispatched[3].state = "sent"
    /\ ~_dispatch_task.stopping
    /\ _dispatch_task.pc = "wait_for"

\* C30: the messages published on the outbound queue are, in the order of
\* their publication and each once, those the dispatcher has taken followed
\* by those that wait on the queue; and the message the dispatcher holds is
\* the last one it has taken.
C30_TakenExactlyOnce ==
    /\ Len(dispatched) + Len(outbound) = npublished
    /\ \A k \in 1..Len(dispatched) : dispatched[k].msg.seq = k
    /\ \A k \in 1..Len(outbound) : outbound[k].seq = Len(dispatched) + k
    /\ _dispatch_task.msg # NoMessage =>
          /\ dispatched # <<>>
          /\ dispatched[Len(dispatched)].msg = _dispatch_task.msg
          /\ dispatched[Len(dispatched)].state \in {"taken", "sending"}

\* A message was published while consume_outbound() waited, the timeout
\* cancelled that consume_outbound() before it ran, and the next one took the
\* message, which was sent.
C30_Witness ==
    \E k \in 1..Len(dispatched) :
        /\ dispatched[k].raced
        /\ dispatched[k].state = "sent"
        /\ npublished = Len(dispatched)

\* C31: a spawn made through the tool gets as its origin the context the tool
\* has at that moment; the origin of a spawn never changes afterwards,
\* whatever set_context is called with; and the announcement of a subagent is
\* addressed to "<channel>:<chat_id>" of its origin.
C31_OriginFixedAtSpawn ==
    [][/\ nspawned' = nspawned + 1 =>
             sub'[nspawned'].origin =
                 [channel |-> _origin_channel, chat_id |-> _origin_chat_id]
       /\ \A i \in 1..nspawned : sub'[i].origin = sub[i].origin
       /\ Len(inbound') = Len(inbound) + 1 =>
             LET msg == inbound'[Len(inbound')]
             IN msg.chat_id = <<sub[msg.spawn].origin.channel, ":",
                                sub[msg.spawn].origin.chat_id>>]_vars

\* A subagent spawned for one conversation has announced its result to it
\* after the tool's context was set for the other conversation; the spawn
\* before it was made with the default context.
C31_Witness ==
    /\ nspawned = 2
    /\ sub[1].origin = [channel |-> "cli", chat_id |-> "direct"]
    /\ sub[2].origin = [channel |-> "telegram", chat_id |-> "42"]
    /\ _origin_channel = "whatsapp"
    /\ Len(inbound) = 1
    /\ inbound[1].spawn = 2
    /\ inbound[1].chat_id = <<"telegram", ":", "42">>

\* C32: a subagent whose last completion call failed has ended at that
\* response: its result is the provider's error text, it did not run into
\* the ceiling, and its one announcement carries the success status and that
\* text.
C32_BackendErrorIsFinalResult ==
    \A i \in Spawns :
        last_completion[i] \in {"Exception", "no choices"} =>
            /\ RunEnded(i)
            /\ sub[i].status = "ok"
            /\ Head(sub[i].result) = "Error calling LLM: "
            /\ sub[i].raised = NoText
            /\ ~sub[i].ceiling
            /\ \E k \in AnnouncementsOf(i) :
                  /\ AnnouncementsOf(i) = {k}
                  /\ StatusTextOf(inbound[k]) = "completed successfully"
                  /\ ResultOf(inbound[k]) = sub[i].result

\* The backend of one subagent failed after an iteration with a tool call,
\* and the subagent announced the error text as its result.
C32_Witness ==
    /\ last_completion[1] = "Exception"
    /\ sub[1].pc = "finished"
    /\ sub[1].result = <<"Error calling LLM: ", "rate limit exceeded">>
    /\ nspawned = 2
    /\ sub[2].pc = "await_tool"
    /\ Len(inbound) = 1

(***************************************************************************)
(* The Feishu channel's properties.                                        *)
(***************************************************************************)
\* The messages on the inbound queue that forward message_id.
Forwards(message_id) ==
    {k \in 1..Len(inbound) : inbound[k].metadata.message_id = message_id}

\* Claim C33: a message id is forwarded to the bus at most once while it is in
\* the cache, however the coroutines of its events interleave: the forwards of
\* an id are at most one more than its evictions from the cache, and of the
\* coroutines that hold an id never evicted only the first gets past the test of
\* the cache.  A coroutine that got past the test has left its id in the cache
\* (until an eviction), whether its handling failed or not, so the id is not
\* handled again.
C33_ForwardedAtMostOnce ==
    /\ \A id \in MessageIds : Cardinality(Forwards(id)) <= evictions[id] + 1
    /\ \A b, c \in 1..Len(on_message) :
          (/\ b < c
           /\ on_message[b].event.message_id = on_message[c].event.message_id
           /\ on_message[b].pc # "scheduled"
           /\ evictions[on_message[b].event.message_id] = 0)
          => on_message[c].pc \in {"scheduled", "duplicate"}
    /\ \A c \in 1..Len(on_message) :
          on_message[c].pc \notin {"scheduled", "duplicate"}
          => \/ Processed(_processed_message_ids, on_message[c].event.message_id)
             \/ evictions[on_message[c].event.message_id] > 0

\* A message whose handling failed is delivered again and dropped, while
\* another message is forwarded.
C33_Witness ==
    /\ Len(on_message) = 3
    /\ on_message[1].event.message_id = max_processed + 1
    /\ on_message[1].pc = "failed"
    /\ on_message[2].event.message_id = max_processed + 1
    /\ on_message[2].event.body = JsonText
    /\ on_message[2].pc = "duplicate"
    /\ on_message[3].pc = "handled"
    /\ Cardinality(Forwards(max_processed + 1)) = 0
    /\ Cardinality(Forwards(max_processed + 2)) = 1

\* Claim C34: when the cache of processed message ids exceeds 1000 entries it
\* is trimmed so that only the most recent 500 ids are kept, the oldest evicted
\* first: a step that puts an id into a cache of max_processed ids leaves the 500
\* ids put last.
C34_TrimmedToRecentHalf ==
    [][(/\ Len(_processed_message_ids) = max_processed
        /\ _processed_message_ids' # _processed_message_ids)
       => LET put == Append(_processed_message_ids,
                            _processed_message_ids'[Len(_processed_message_ids')])
          IN _processed_message_ids' = SubSeq(put, Len(put) - 500 + 1, Len(put))]_vars

(***************************************************************************)
(* The gateway's properties.                                               *)
(***************************************************************************)
\* Claim C35: when a job fires and the agent has answered, on_cron_job puts one
\* message on the outbound queue if and only if the payload's deliver is true
\* and its to is set; the message carries the agent's response (the empty text
\* for None) and is addressed to the payload's channel ('cli' when there is
\* none) and to the payload's to.  In every other step of on_cron_job nothing
\* is put on the outbound queue.
C35_CronDelivery ==
    [][LET payload == on_cron_job.payload
           set == payload.to # None /\ payload.to # ""
       IN /\ on_cron_job'.pc = "returned" /\ on_cron_job.pc = "awaiting"
             => IF payload.deliver /\ set
                THEN outbound' =
                        Append(outbound,
                               [channel |-> IF payload.channel \in {None, ""}
                                            THEN "cli" ELSE payload.channel,
                                chat_id |-> payload.to,
                                content |-> IF on_cron_job'.response = None
                                            THEN "" ELSE on_cron_job'.response])
                ELSE outbound' = outbound
          /\ ~(on_cron_job'.pc = "returned" /\ on_cron_job.pc = "awaiting")
             => outbound' = outbound]_vars

\* One job was delivered to the default channel, and the next, which names a
\* channel but not whom to deliver to, was run and not delivered.
C35_Witness ==
    /\ nfired = 2
    /\ on_cron_job.pc = "returned"
    /\ on_cron_job.payload.deliver
    /\ on_cron_job.payload.channel = "whatsapp"
    /\ on_cron_job.payload.to = None
    /\ on_cron_job.response = "pong"
    /\ outbound = <<[channel |-> "cli", chat_id |-> "123", content |-> "pong"]>>

(***************************************************************************)
(* The session store's properties.                                         *)
(***************************************************************************)
\* The stored log of key: the messages of its session file, None without one.
StoredLog(store, key) == _load(store, key)

\* Claim C36: session keys partition the stored state: two different keys have
\* different session files and cache entries, so a save or a delete of the
\* session of one key leaves the stored log and the cache entry of every other
\* key as they were.
C36_KeysPartitionStore ==
    [][\A k1 \in keys, k2 \in keys :
          (k1 # k2 /\ store_op'.key = k1 /\ store_op'.op \in {"save", "delete"})
          => /\ _get_session_path(k1) # _get_session_path(k2)
             /\ StoredLog(files', k2) = StoredLog(files, k2)
             /\ (k2 \in DOMAIN _cache') = (k2 \in DOMAIN _cache)
             /\ k2 \in DOMAIN _cache => _cache'[k2] = _cache[k2]]_vars

(***************************************************************************)
(* The WhatsApp channel's properties.                                      *)
(***************************************************************************)
\* Claim C37: once stop() has returned the channel holds no bridge connection
\* and never connects again, wherever start() stood when stop() was called:
\* _connected is false, _ws is unset, no websocket is open and no message of
\* the bridge has been forwarded since; and _connected is true only while a
\* websocket to the bridge is open.
C37_StoppedStaysDisconnected ==
    /\ stop_call = "returned"
       => /\ ~_connected
          /\ _ws = None
          /\ ~bridge.open
          /\ late_forwards = 0
    /\ _connected => bridge.open

(***************************************************************************)
(* The session key's properties.                                           *)
(***************************************************************************)
\* str holds no colon.
NoColon(str) == \A k \in 1..Len(str) : str[k] # ":"

\* Claim C38: parse_session_key inverts the construction of the session key:
\* for the key channel + ':' + chat_id of a channel without ':' it returns
\* (channel, chat_id), also when the chat id holds ':'; for a key without ':'
\* it returns (key, '').
C38_ParseInvertsSessionKey ==
    parse_call.called
    => /\ (/\ parse_call.key = session_key(key_of.channel, key_of.chat_id)
           /\ NoColon(key_of.channel))
          => parse_call.returned = <<key_of.channel, key_of.chat_id>>
       /\ NoColon(parse_call.key) => parse_call.returned = <<parse_call.key, <<>>>>

\* The key of a message whose chat id holds a colon has been parse_call.
C38_Witness ==
    /\ key_of = [channel |-> <<"a">>, chat_id |-> <<"a", ":", "a">>]
    /\ parse_call.called
    /\ parse_call.key = <<"a", ":", "a", ":", "a">>
    /\ parse_call.returned = <<<<"a">>, <<"a", ":", "a">>>>
====
